---- MODULE Spec2Model ----
(***************************************************************************)
(* A model of the De Montfort Hall listing scrapers (Carvalth/dmhshows).   *)
(* The repository holds several independent rewrites of one script; each   *)
(* rewrite ("variant") is modelled as its own group of actions over the    *)
(* same variables, and a behaviour runs exactly one variant.  The web site *)
(* and the Ticketsolve pages are the environment: whatever a navigation, a *)
(* selector or a network response can yield is drawn with \E.              *)
(***************************************************************************)
EXTENDS Integers, Sequences, FiniteSets, TLC

VARIABLES
    variant,    \* which script of the repository this behaviour runs
    pc,         \* position of the script's main function
    todo,       \* listing pages still to be fetched
    cards,      \* the cards collected from the listing (rawCards / all / stubs)
    idx,        \* index of the next card to resolve (0-based, as in the code)
    out,        \* events built so far (out / all / results), or mapLimit's out array
    file,       \* the output file (or stdout): written or not, and the events in it
    navs,       \* URLs navigated while resolving the most recent event, in order
    probe,      \* what each availability source yielded for the most recent event
    running,    \* mapLimit: the indexes whose fn is in flight
    stage,      \* mapLimit: per in-flight index, the step its fn is awaiting
    pages       \* paginate: the loop counter `pages`

vars == <<variant, pc, todo, cards, idx, out, file, navs, probe, running, stage, pages>>

-----------------------------------------------------------------------------
(* Bounds of the model *)

\* most listing pages the site offers in one run
MaxListPages == 2
\* most cards the listing yields in one run
MaxCards == 2

-----------------------------------------------------------------------------
(* JavaScript values *)

\* JS null in a string-typed slot (start); `${null}` prints "null"
null == "null"
\* JS null / undefined where an object or number is expected
NoRes == [none |-> TRUE]
\* the output file before the run has written it
NoFile == [written |-> FALSE, events |-> <<>>]
\* the file after writeFile(JSON.stringify(events))
writeFile(events) == [written |-> TRUE, events |-> events]

Max(a, b) == IF a > b THEN a ELSE b
Min(a, b) == IF a < b THEN a ELSE b

\* const clamp = (n, a, b) => Math.max(a, Math.min(b, n))
clamp(n, a, b) == Max(a, Min(b, n))

\* Math.round((num / den) * 100) for num >= 0, den > 0: floor(x + 0.5)
roundPct(num, den) == (200 * num + den) \div (2 * den)

-----------------------------------------------------------------------------
(* Text: a string is the sequence of its characters *)

UpperChars == <<"A","B","C","D","E","F","G","H","I","J","K","L","M",
                "N","O","P","Q","R","S","T","U","V","W","X","Y","Z">>
LowerChars == <<"a","b","c","d","e","f","g","h","i","j","k","l","m",
                "n","o","p","q","r","s","t","u","v","w","x","y","z">>

toLowerChar(c) ==
    IF \E k \in 1..Len(UpperChars) : UpperChars[k] = c
    THEN LowerChars[CHOOSE k \in 1..Len(UpperChars) : UpperChars[k] = c]
    ELSE c

toUpperChar(c) ==
    IF \E k \in 1..Len(LowerChars) : LowerChars[k] = c
    THEN UpperChars[CHOOSE k \in 1..Len(LowerChars) : LowerChars[k] = c]
    ELSE c

\* String.prototype.toLowerCase
toLowerCase(t) == [k \in 1..Len(t) |-> toLowerChar(t[k])]
\* String.prototype.toUpperCase
toUpperCase(t) == [k \in 1..Len(t) |-> toUpperChar(t[k])]

\* String.prototype.includes
includes(t, p) == \E k \in 0..(Len(t) - Len(p)) : SubSeq(t, k + 1, k + Len(p)) = p

\* the lower-case words the scripts search texts for
Kw ==
    [almost_gone |-> <<"a","l","m","o","s","t"," ","g","o","n","e">>,
     available |-> <<"a","v","a","i","l","a","b","l","e">>,
     book |-> <<"b","o","o","k">>,
     booknow |-> <<"b","o","o","k"," ","n","o","w">>,
     canceled |-> <<"c","a","n","c","e","l","e","d">>,
     cancelled |-> <<"c","a","n","c","e","l","l","e","d">>,
     few |-> <<"f","e","w">>,
     held |-> <<"h","e","l","d">>,
     in_cart |-> <<"i","n","_","c","a","r","t">>,
     in_cart_sp |-> <<"i","n"," ","c","a","r","t">>,
     just_added |-> <<"j","u","s","t"," ","a","d","d","e","d">>,
     last |-> <<"l","a","s","t">>,
     last_few |-> <<"l","a","s","t"," ","f","e","w">>,
     limited |-> <<"l","i","m","i","t","e","d">>,
     low |-> <<"l","o","w">>,
     new_date |-> <<"n","e","w"," ","d","a","t","e">>,
     postponed |-> <<"p","o","s","t","p","o","n","e","d">>,
     rescheduled |-> <<"r","e","s","c","h","e","d","u","l","e","d">>,
     reserved |-> <<"r","e","s","e","r","v","e","d">>,
     selling_fast |-> <<"s","e","l","l","i","n","g"," ","f","a","s","t">>,
     sold |-> <<"s","o","l","d">>,
     sold_out |-> <<"s","o","l","d"," ","o","u","t">>,
     soldout |-> <<"s","o","l","d","o","u","t">>,
     ticket |-> <<"t","i","c","k","e","t">>,
     almost |-> <<"a","l","m","o","s","t">>,
     availability |-> <<"a","v","a","i","l","a","b","i","l","i","t","y">>,
     best |-> <<"b","e","s","t">>,
     fast |-> <<"f","a","s","t">>,
     now |-> <<"n","o","w">>,
     on |-> <<"o","n">>,
     out |-> <<"o","u","t">>,
     remaining |-> <<"r","e","m","a","i","n","i","n","g">>,
     sale |-> <<"s","a","l","e">>,
     selling |-> <<"s","e","l","l","i","n","g">>,
     unavailable |-> <<"u","n","a","v","a","i","l","a","b","l","e">>]

\* the texts a card or a Ticketsolve page can show, and the scripts' status names
Txt ==
    [BOOK |-> <<"B","O","O","K">>,
     BOOK_NOW |-> <<"B","O","O","K"," ","N","O","W">>,
     BookNow |-> <<"B","o","o","k"," ","N","o","w">>,
     CANCELLED |-> <<"C","A","N","C","E","L","L","E","D">>,
     Cancelled |-> <<"C","a","n","c","e","l","l","e","d">>,
     Limited |-> <<"L","i","m","i","t","e","d">>,
     MoreInfo |-> <<"M","o","r","e"," ","i","n","f","o">>,
     SOLD_OUT |-> <<"S","O","L","D"," ","O","U","T">>]

\* the table were 'limited' looked for before 'sold'
statusToPct_limitedFirst(s) ==
    LET t == toLowerCase(s) IN
    IF includes(t, Kw.limited) THEN 85
    ELSE IF includes(t, Kw.sold) THEN 100
    ELSE IF includes(t, Kw.last) \/ includes(t, Kw.few) \/ includes(t, Kw.low) THEN 75
    ELSE IF includes(t, Kw.book) THEN 48
    ELSE 30

\* const statusToPct = (s='') => { ... }  (pooled and later variants)
statusToPct(s) ==
    LET t == toLowerCase(s) IN
    IF includes(t, Kw.sold) THEN 100
    ELSE IF includes(t, Kw.limited) THEN 85
    ELSE IF includes(t, Kw.last) \/ includes(t, Kw.few) \/ includes(t, Kw.low) THEN 75
    ELSE IF includes(t, Kw.book) THEN 48
    ELSE 30

\* the fallback were it the fixed placeholder 30
pctOrFallback_placeholder(measured, tablePct) ==
    IF measured # NoRes THEN measured.pct ELSE 30

\* the choice were a recognised card status to win over a measurement
pctOrFallback_cardFirst(measured, tablePct) ==
    IF tablePct # 30 \/ measured = NoRes THEN tablePct ELSE measured.pct

\* `if (pct == null) pct = statusToPct(status)`: the measured percentage when
\* there is one, else the status table's value
pctOrFallback(measured, tablePct) ==
    IF measured # NoRes THEN measured.pct ELSE tablePct

-----------------------------------------------------------------------------
(* Dates: new Date(v) on the date texts the listing can carry *)

IsoA == "2025-10-03T19:30:00.000Z"

\* new Date(v).toISOString(), or null when getTime() is NaN
parseDate(v) ==
    IF v \in {"2025-10-03T19:30:00Z", "2025-10-03T19:30:00.000Z"} THEN IsoA ELSE null

\* const toISO = (v) => { if (!v) return null; ... }
toISO(v) == IF v = "" THEN null ELSE parseDate(v)

-----------------------------------------------------------------------------
(* URLs: the host they point at and how many "/seats" segments end them *)

NoUrl == [host |-> "", seats |-> 0]
TsUrl == [host |-> "ticketsolve", seats |-> 0]
EvUrl == [host |-> "dmh", seats |-> 0]

\* /ticketsolve/i.test(u)
isTicketsolve(u) == u.host = "ticketsolve"
\* /\/seats\b/.test(u)
hasSeats(u) == u.seats > 0
\* u.replace(/\/$/, '') + '/seats'
withSeats(u) == [u EXCEPT !.seats = @ + 1]

-----------------------------------------------------------------------------
(* uniqBy / dedupeBy: keep the first element of each key *)

\* the loop of uniqBy from position k on; keys[k] is keyFn(arr[k])
RECURSIVE uniqByFrom(_, _, _, _)
uniqByFrom(arr, keys, k, seen) ==
    IF k > Len(arr) THEN <<>>
    ELSE IF keys[k] \in seen
         THEN uniqByFrom(arr, keys, k + 1, seen)
         ELSE <<arr[k]>> \o uniqByFrom(arr, keys, k + 1, seen \cup {keys[k]})

\* const uniqBy = (arr, keyFn) => ..., given the keys keyFn yields on arr
uniqBy(arr, keys) == uniqByFrom(arr, keys, 1, {})

-----------------------------------------------------------------------------
(* Ticketsolve measurements *)

\* capacity/remaining pairs the sniffed JSON can carry (remaining may exceed capacity)
NetPairs == {[capacity |-> 4, remaining |-> 1], [capacity |-> 2, remaining |-> 5]}
\* seat counts the DOM can show: cap seats of which avail look available
DomPairs == {[capacity |-> 4, remaining |-> 2]}

\* { capacity: cap, remaining, sold, pct } as built at the end of computeTicketsolvePct
finalise(res) ==
    LET cap       == res.capacity
        remaining == clamp(res.remaining, 0, cap)
        sold      == cap - remaining
    IN  [capacity |-> cap, remaining |-> remaining, sold |-> sold,
         pct |-> clamp(roundPct(sold, cap), 0, 100)]

\* What a Ticketsolve seats page does during one event's probes:
\*   net      - the best pair the response handler saw (NoRes: none)
\*   dom      - how the DOM probe ends: its first goto throws, the bootstrapped JSON
\*              holds a pair, the zones evaluate throws, seats are counted, nothing
\*   pair     - the pair the DOM probe finds when it finds one
\*   offSeats - after the DOM probe's goto, page.url() has no /seats (a redirect)
\* (fields that cannot matter are fixed: the DOM probe runs only when net = NoRes)
ProbeEnvs ==
    {e \in [net : {NoRes} \cup NetPairs,
            dom : {"gotoThrows", "boot", "evalThrows", "count", "none"},
            pair : {NoRes} \cup DomPairs,
            offSeats : BOOLEAN] :
        /\ e.net # NoRes => e.dom = "none"
        /\ e.dom = "gotoThrows" => ~e.offSeats
        /\ e.pair # NoRes <=> e.dom \in {"boot", "count"}}

\* async function probeTicketsolveViaNetwork(page, url): one goto, returns best
probeTicketsolveViaNetwork(url, env) ==
    [res |-> env.net, threw |-> FALSE, navs |-> <<url>>]

\* async function probeTicketsolveViaDOM(page, url)
probeTicketsolveViaDOM(url, env) ==
    IF env.dom = "gotoThrows"
    THEN [res |-> NoRes, threw |-> FALSE, navs |-> <<url>>]
    ELSE LET gone == IF env.offSeats THEN <<url, withSeats(url)>> ELSE <<url>> IN
         CASE env.dom = "boot"       -> [res |-> env.pair, threw |-> FALSE, navs |-> gone]
           [] env.dom = "evalThrows" -> [res |-> NoRes, threw |-> TRUE, navs |-> gone]
           [] env.dom = "count"      -> [res |-> env.pair, threw |-> FALSE, navs |-> gone]
           [] OTHER                  -> [res |-> NoRes, threw |-> FALSE, navs |-> gone]

\* computeTicketsolvePct were the DOM walk to run whatever the network sniff found
computeTicketsolvePct_domAlways(url, env) ==
    LET seatsUrl == IF hasSeats(url) THEN url ELSE withSeats(url)
        net      == probeTicketsolveViaNetwork(seatsUrl, env)
        dom      == probeTicketsolveViaDOM(seatsUrl, env)
        res      == IF net.res # NoRes THEN net ELSE dom
    IN  [res   |-> IF res.threw \/ res.res = NoRes THEN NoRes ELSE finalise(res.res),
         threw |-> res.threw,
         net   |-> net.res,
         dom   |-> dom.res,
         navs  |-> net.navs \o dom.navs]

\* async function computeTicketsolvePct(page, url): network sniff, then DOM walk
computeTicketsolvePct(url, env) ==
    LET seatsUrl == IF hasSeats(url) THEN url ELSE withSeats(url)
        net      == probeTicketsolveViaNetwork(seatsUrl, env)
        dom      == probeTicketsolveViaDOM(seatsUrl, env)
        res      == IF net.res # NoRes THEN net ELSE dom
        gone     == IF net.res # NoRes THEN net.navs ELSE net.navs \o dom.navs
    IN  [res   |-> IF res.threw \/ res.res = NoRes THEN NoRes ELSE finalise(res.res),
         threw |-> res.threw,
         net   |-> net.res,
         dom   |-> IF net.res # NoRes THEN NoRes ELSE dom.res,
         navs  |-> gone]

\* what findTicketsolveOnEventPage can return: '' or the href of a ticketsolve link
FindResults == {NoUrl, TsUrl, withSeats(TsUrl)}

-----------------------------------------------------------------------------
(* Variant "main": scrape-dmh.js, main() with sequential Ticketsolve lookups *)

\* (title, datetime, dateText) of a card; dateText = datetime || text of the time
\* element.  "A" is listed with no date and with an unparseable one, "B" with a date
MainHeads == {<<"A", "", "">>, <<"A", "", "TBC">>,
              <<"B", "2025-10-03T19:30:00Z", "2025-10-03T19:30:00Z">>}

\* (status, ticketsHref, eventHref) of a card: a "SOLD OUT" button that links to
\* Ticketsolve, or a "More info" link to the event page
MainCtas == {<<Txt.SOLD_OUT, TsUrl, NoUrl>>, <<Txt.MoreInfo, NoUrl, EvUrl>>}

\* the items of extractCardsFromPage
MainCards ==
    {[title |-> h[1], datetime |-> h[2], dateText |-> h[3], status |-> c[1],
      ticketsHref |-> c[2], eventHref |-> c[3]] : h \in MainHeads, c \in MainCtas}

\* c => `${c.title}|${c.datetime || c.dateText}`
mainCardKey(c) == <<c.title, IF c.datetime # "" THEN c.datetime ELSE c.dateText>>

\* e => `${e.title}|${e.start}|${e.status}|${e.override_pct}`
mainFinalKey(e) == <<e.title, e.start, e.status, e.override_pct>>

\* main(): p0.goto(LIST_URL), expand, collectPaginationUrls; a throw leaves main
Main_Start ==
    /\ variant = "main" /\ pc = "start"
    /\ \E ok \in BOOLEAN, n \in 1..MaxListPages :
         IF ok THEN pc' = "list" /\ todo' = n
               ELSE pc' = "failed" /\ todo' = todo
    /\ UNCHANGED <<variant, cards, idx, out, file, navs, probe, running, stage, pages>>

\* main(): one pass of `for (const url of pageUrls)`; after the last page the
\* cards are made unique and an empty list throws 'No events found'
Main_ListPage ==
    /\ variant = "main" /\ pc = "list" /\ todo > 0
    /\ \E failed \in BOOLEAN, batch \in UNION {[1..n -> MainCards] : n \in 0..MaxCards} :
         /\ Len(cards) + Len(batch) <= MaxCards
         /\ failed => batch = <<>>
         /\ LET raw == cards \o batch
                unique == uniqBy(raw, [k \in 1..Len(raw) |-> mainCardKey(raw[k])])
            IN  IF todo > 1
                THEN cards' = raw /\ pc' = pc
                ELSE cards' = unique /\ pc' = IF unique = <<>> THEN "failed" ELSE "enrich"
    /\ todo' = todo - 1
    /\ UNCHANGED <<variant, idx, out, file, navs, probe, running, stage, pages>>

\* main(): one pass of `for (let i = 0; i < cards.length; i++)`
Main_Enrich ==
    /\ variant = "main" /\ pc = "enrich" /\ idx < Len(cards)
    /\ \E found \in FindResults, env \in ProbeEnvs :
         LET it         == cards[idx + 1]
             needFind   == ~isTicketsolve(it.ticketsHref) /\ it.eventHref # NoUrl
             ticketsUrl == IF needFind THEN found ELSE it.ticketsHref
             findNavs   == IF needFind THEN <<it.eventHref>> ELSE <<>>
             startA     == IF it.datetime # "" THEN toISO(it.datetime) ELSE null
             startB     == IF it.dateText # "" THEN toISO(it.dateText) ELSE null
             start      == IF startA # null THEN startA ELSE startB
             r          == computeTicketsolvePct(ticketsUrl, env)
             measured   == IF ticketsUrl # NoUrl THEN r.res ELSE NoRes
             pct        == pctOrFallback(measured, statusToPct(it.status))
         IN  /\ out' = Append(out, [title |-> it.title, start |-> start,
                                    status |-> toUpperCase(it.status), override_pct |-> pct])
             /\ navs' = IF ticketsUrl # NoUrl THEN findNavs \o r.navs ELSE findNavs
             /\ probe' = [at |-> idx + 1, status |-> it.status, tried |-> ticketsUrl # NoUrl,
                          net |-> IF ticketsUrl # NoUrl THEN r.net ELSE NoRes,
                          dom |-> IF ticketsUrl # NoUrl THEN r.dom ELSE NoRes,
                          measured |-> measured]
    /\ idx' = idx + 1
    /\ UNCHANGED <<variant, pc, todo, cards, file, running, stage, pages>>

\* main(): uniqBy(out, ...), mkdir, writeFile
Main_Write ==
    /\ variant = "main" /\ pc = "enrich" /\ idx = Len(cards)
    /\ file' = writeFile(uniqBy(out, [k \in 1..Len(out) |-> mainFinalKey(out[k])]))
    /\ pc' = "done"
    /\ UNCHANGED <<variant, todo, cards, idx, out, navs, probe, running, stage, pages>>

NextMain == Main_Start \/ Main_ListPage \/ Main_Enrich \/ Main_Write

-----------------------------------------------------------------------------
(* Variant "run": scrape-dmh.js, run() with "?_paged=N" listing pages *)

\* const MAX_PAGES = 12 of run()'s listing loop
LIST_MAX_PAGES == 12

\* function fallbackPct(statusText = '')
fallbackPct(statusText) ==
    LET s == toLowerCase(statusText) IN
    IF includes(s, Kw.sold) THEN 100
    ELSE IF includes(s, Kw.limited) THEN 85
    ELSE IF includes(s, Kw.last) \/ includes(s, Kw.low) THEN 75
    ELSE IF includes(s, Kw.booknow) THEN 48
    ELSE 30

\* number of TRUE entries of a sequence of test results
countTrue(flags) == Cardinality({k \in 1..Len(flags) : flags[k]})

\* the branches of the [data-seat-status] loop of computePctSoldFromTicketsolve
attrAvailable(st) == includes(toLowerCase(st), Kw.available)
attrUnavailable(st) ==
    LET t == toLowerCase(st) IN
    /\ ~includes(t, Kw.available)
    /\ \/ includes(t, Kw.unavailable) \/ includes(t, Kw.in_cart)
       \/ includes(t, Kw.reserved)    \/ includes(t, Kw.held)

\* the branches of the [aria-label] loop of computePctSoldFromTicketsolve
ariaAvailable(lab) == includes(toLowerCase(lab), Kw.available)
ariaUnavailable(lab) ==
    LET t == toLowerCase(lab) IN
    /\ ~includes(t, Kw.available)
    /\ \/ includes(t, Kw.unavailable) \/ includes(t, Kw.in_cart_sp) \/ includes(t, Kw.reserved)

\* What a seat map shows: the data-seat-status values, the numbers of elements the
\* available / unavailable class selectors match, and the aria-label values
SeatMaps ==
    {[attr |-> <<>>, cls |-> <<0, 0>>, aria |-> <<>>],
     [attr |-> <<Kw.available, Kw.unavailable>>, cls |-> <<0, 0>>, aria |-> <<>>],
     [attr |-> <<Kw.reserved, Kw.available>>, cls |-> <<0, 0>>, aria |-> <<>>],
     [attr |-> <<>>, cls |-> <<1, 3>>, aria |-> <<>>],
     [attr |-> <<>>, cls |-> <<0, 0>>, aria |-> <<Kw.reserved>>]}

\* async function computePctSoldFromTicketsolve(page), given what the page shows
computePctSoldFromTicketsolve(seats) ==
    LET a1 == countTrue([k \in 1..Len(seats.attr) |-> attrAvailable(seats.attr[k])])
        u1 == countTrue([k \in 1..Len(seats.attr) |-> attrUnavailable(seats.attr[k])])
        a2 == IF a1 + u1 = 0 THEN seats.cls[1] ELSE a1
        u2 == IF a1 + u1 = 0 THEN seats.cls[2] ELSE u1
        a3 == IF a2 + u2 = 0 THEN countTrue([k \in 1..Len(seats.aria) |-> ariaAvailable(seats.aria[k])]) ELSE a2
        u3 == IF a2 + u2 = 0 THEN countTrue([k \in 1..Len(seats.aria) |-> ariaUnavailable(seats.aria[k])]) ELSE u2
        total == a3 + u3
    IN  IF total = 0 THEN NoRes ELSE [pct |-> roundPct(u3, total)]

\* the rows of scrapeListPage: status is the primary link's text or "More info"
RunRows ==
    {[title |-> c[1], status |-> c[2], bookHref |-> c[3]] :
        c \in {<<"A", Txt.SOLD_OUT, TsUrl>>, <<"A", Txt.BookNow, TsUrl>>,
               <<"B", Txt.MoreInfo, NoUrl>>}}

\* What the Ticketsolve page of a row does inside run()'s try block:
\*   fails - the step that throws: "goto", "start" (getStartISOFromTicketsolve),
\*           "seats" (computePctSoldFromTicketsolve) or "none"
\*   start - what getStartISOFromTicketsolve returns
\*   badge - a SOLD OUT button, link or span is on the page
\*   seats - what the seat map shows
RunEnvs ==
    {e \in [fails : {"goto", "start", "seats", "none"}, start : {null, IsoA},
            badge : BOOLEAN, seats : SeatMaps] :
        /\ e.fails \in {"goto", "start"} => (e.start = null /\ ~e.badge)
        /\ (e.fails # "none" \/ e.badge) => e.seats = [attr |-> <<>>, cls |-> <<0, 0>>, aria |-> <<>>]
        /\ e.fails = "seats" => ~e.badge}

\* ev => `${ev.title}__${ev.start || ""}`
titleStartKey(ev) == <<ev.title, IF ev.start = null THEN "" ELSE ev.start>>

\* run(): one pass of `for (let p = 1; p <= MAX_PAGES; p++)`; a throw of
\* scrapeListPage's goto leaves run(), an empty batch ends the loop
Run_ListPage ==
    /\ variant = "run" /\ pc = "start" /\ pages < LIST_MAX_PAGES
    /\ \E throws \in BOOLEAN, batch \in UNION {[1..n -> RunRows] : n \in 0..MaxCards} :
         /\ Len(cards) + Len(batch) <= MaxCards
         /\ throws => batch = <<>>
         /\ cards' = cards \o batch
         /\ pc' = IF throws THEN "failed"
                  ELSE IF batch = <<>> \/ pages + 1 = LIST_MAX_PAGES THEN "enrich" ELSE pc
    /\ pages' = pages + 1
    /\ UNCHANGED <<variant, todo, idx, out, file, navs, probe, running, stage>>

\* run(): one pass of `for (const r of all)`
Run_Row ==
    /\ variant = "run" /\ pc = "enrich" /\ idx < Len(cards)
    /\ \E env \in RunEnvs :
         LET r        == cards[idx + 1]
             visited  == r.bookHref # NoUrl
             startISO == IF visited /\ env.fails \notin {"goto", "start"} THEN env.start ELSE null
             reached  == visited /\ env.fails \in {"seats", "none"}
             seatPct  == computePctSoldFromTicketsolve(env.seats)
             pct      == IF ~reached THEN NoRes
                         ELSE IF env.badge THEN [pct |-> 100]
                         ELSE IF env.fails = "seats" THEN NoRes
                         ELSE seatPct
             override_pct == pctOrFallback(pct, fallbackPct(r.status))
         IN  /\ out' = Append(out, [title |-> r.title, start |-> startISO,
                                    status |-> r.status, override_pct |-> override_pct])
             /\ navs' = IF visited THEN <<r.bookHref>> ELSE <<>>
             /\ probe' = [at |-> idx + 1, status |-> r.status, tried |-> visited,
                          measured |-> pct,
                          seats |-> IF reached /\ ~env.badge /\ env.fails = "none"
                                    THEN env.seats ELSE NoRes]
    /\ idx' = idx + 1
    /\ UNCHANGED <<variant, pc, todo, cards, file, running, stage, pages>>

\* run(): dedup by title+start, mkdir, writeFile
Run_Write ==
    /\ variant = "run" /\ pc = "enrich" /\ idx = Len(cards)
    /\ file' = writeFile(uniqBy(out, [k \in 1..Len(out) |-> titleStartKey(out[k])]))
    /\ pc' = "done"
    /\ UNCHANGED <<variant, todo, cards, idx, out, navs, probe, running, stage, pages>>

NextRun == Run_ListPage \/ Run_Row \/ Run_Write

-----------------------------------------------------------------------------
(* Variant "pool": part_004, main() with mapLimit over a pool of Ticketsolve pages *)

\* the most cards the listing shows in the pooled variant
MaxPoolCards == 4

\* const TS_CONCURRENCY = 3; // Ticketsolve concurrency
TS_CONCURRENCY == 3

\* const iso = (str) => ...
iso(str) == IF str = "" THEN null ELSE parseDate(str)

\* function dedupeBy(arr, keyFn)
dedupeBy(arr, keys) == uniqByFrom(arr, keys, 1, {})

\* titles of the listing's cards, in listing order
PoolTitles == <<"A", "B", "C", "D", "E", "F">>

\* (datetime, dateText, status, ticketsLink, eventPage) of a card: a "SOLD OUT" link
\* to Ticketsolve, or a dated "More info" link to the event page
PoolKinds == {<<"", "", Txt.SOLD_OUT, TsUrl, NoUrl>>,
              <<"2025-10-03T19:30:00Z", "2025-10-03T19:30:00Z", Txt.MoreInfo, NoUrl, EvUrl>>}

\* the items of extractCardsFromPage: the k-th card of the listing, of kind c
poolCard(k, c) ==
    [title |-> PoolTitles[k], datetime |-> c[1], dateText |-> c[2], status |-> c[3],
     ticketsLink |-> c[4], eventPage |-> c[5]]

\* it => `${it.title}|${it.dateText}|${it.datetime}`
poolCardKey(it) == <<it.title, it.dateText, it.datetime>>

\* ev => `${ev.title}|${ev.start || ''}|${ev.status}`
poolFinalKey(ev) == <<ev.title, IF ev.start = null THEN "" ELSE ev.start, ev.status>>

\* What a Ticketsolve page gives probeTicketsolve: the best pair the response
\* listener saw, and the pair in the bootstrapped JSON (read only when net is none)
PoolEnvs ==
    {e \in [net : {NoRes, [capacity |-> 4, remaining |-> 1]},
            boot : {NoRes} \cup DomPairs] : e.net # NoRes => e.boot = NoRes}

\* async function probeTicketsolve(page, url)
probeTicketsolve(url, env) ==
    LET best == IF env.net # NoRes THEN env.net ELSE env.boot
    IN  IF best = NoRes THEN NoRes ELSE finalise(best)

\* the inner loop's guard without its running.size test
mayKick_noLimit(size, limit) == TRUE

\* the guard of mapLimit's inner loop: running.size < limit
mayKick(size, limit) == size < limit

\* mapLimit: `while (running.size < limit && i < items.length) void kick(i++)`;
\* the value of i when the inner loop ends
RECURSIVE kickTo(_, _, _)
kickTo(i, size, n) ==
    IF mayKick(size, TS_CONCURRENCY) /\ i < n THEN kickTo(i + 1, size + 1, n) ELSE i

\* the mapLimit callback after ticketsUrl is known: normalise to /seats, then probe
\* a ticketsolve URL or go straight to the fallback
afterFind(ticketsUrl) ==
    LET u == IF ticketsUrl # NoUrl /\ ~hasSeats(ticketsUrl) THEN withSeats(ticketsUrl)
             ELSE ticketsUrl
    IN  IF u # NoUrl /\ isTicketsolve(u) THEN [at |-> "probe", url |-> u]
        ELSE [at |-> "ready", url |-> NoUrl]

\* the mapLimit callback up to its first await
fnStart(card) ==
    IF card.ticketsLink = NoUrl /\ card.eventPage # NoUrl
    THEN [at |-> "find", url |-> card.eventPage]
    ELSE afterFind(card.ticketsLink)

\* the lookup of index k (0-based) drives its pooled page tsPages[k % TS_CONCURRENCY]
usesPage(k) == stage[k + 1].at \in {"find", "probe"}

\* collectAllListingCards, the creation of tsPages, and the first lines of mapLimit;
\* a throw of the listing's goto leaves main
Pool_Collect ==
    /\ variant = "pool" /\ pc = "start"
    /\ \E throws \in BOOLEAN, n \in 0..MaxPoolCards :
         \E kinds \in [1..n -> PoolKinds] :
            LET shown  == [k \in 1..n |-> poolCard(k, kinds[k])]
                listed == dedupeBy(shown, [k \in 1..n |-> poolCardKey(shown[k])])
            IN
            /\ throws => n = 0
            /\ cards' = listed
            /\ out' = [k \in 1..Len(listed) |-> NoRes]
            /\ stage' = [k \in 1..Len(listed) |-> [at |-> "idle", url |-> NoUrl]]
            /\ pc' = IF throws THEN "failed" ELSE "map"
    /\ UNCHANGED <<variant, todo, idx, file, navs, probe, running, pages>>

\* mapLimit: one pass of the outer loop that kicks at least one lookup
Pool_Tick ==
    /\ variant = "pool" /\ pc = "map" /\ idx < Len(cards)
    /\ LET to == kickTo(idx, Cardinality(running), Len(cards)) IN
       /\ to > idx
       /\ idx' = to
       /\ running' = running \cup (idx..(to - 1))
       /\ stage' = [k \in 1..Len(cards) |->
                       IF k - 1 \in idx..(to - 1) THEN fnStart(cards[k]) ELSE stage[k]]
    /\ UNCHANGED <<variant, pc, todo, cards, out, file, navs, probe, pages>>

\* the callback of lookup k returns from findTicketsolveOnEventPage
Pool_Found ==
    /\ variant = "pool" /\ pc = "map"
    /\ \E k \in running, found \in FindResults :
         /\ stage[k + 1].at = "find"
         /\ stage' = [stage EXCEPT ![k + 1] = afterFind(found)]
    /\ UNCHANGED <<variant, pc, todo, cards, idx, out, file, navs, probe, running, pages>>

\* the callback of lookup k returns its event; kick stores it and leaves running
Pool_Done ==
    /\ variant = "pool" /\ pc = "map"
    /\ \E k \in running, env \in PoolEnvs :
         LET card   == cards[k + 1]
             tried  == stage[k + 1].at = "probe"
             res    == IF tried THEN probeTicketsolve(stage[k + 1].url, env) ELSE NoRes
             startA == IF card.datetime # "" THEN iso(card.datetime) ELSE null
             startB == IF card.dateText # "" THEN iso(card.dateText) ELSE null
             start  == IF startA # null THEN startA ELSE startB
             pct    == pctOrFallback(res, statusToPct(card.status))
         IN  /\ stage[k + 1].at \in {"probe", "ready"}
             /\ (~tried) => env = [net |-> NoRes, boot |-> NoRes]
             /\ out' = [out EXCEPT ![k + 1] = [title |-> card.title, start |-> start,
                                               status |-> card.status, override_pct |-> pct]]
             /\ stage' = [stage EXCEPT ![k + 1] = [at |-> "done", url |-> NoUrl]]
             /\ running' = running \ {k}
             /\ probe' = [at |-> k + 1, status |-> card.status, tried |-> tried,
                          net |-> IF tried THEN env.net ELSE NoRes,
                          dom |-> IF tried THEN env.boot ELSE NoRes,
                          measured |-> res]
    /\ UNCHANGED <<variant, pc, todo, cards, idx, file, navs, pages>>

\* main(): mapLimit has returned; dedupeBy(enriched.filter(Boolean), ...), writeFile
Pool_Write ==
    /\ variant = "pool" /\ pc = "map" /\ idx = Len(cards) /\ running = {}
    /\ LET enriched == SelectSeq(out, LAMBDA e : e # NoRes) IN
       file' = writeFile(dedupeBy(enriched,
                   [k \in 1..Len(enriched) |-> poolFinalKey(enriched[k])]))
    /\ pc' = "done"
    /\ UNCHANGED <<variant, todo, cards, idx, out, navs, probe, running, stage, pages>>

NextPool == Pool_Collect \/ Pool_Tick \/ Pool_Found \/ Pool_Done \/ Pool_Write

-----------------------------------------------------------------------------
(* Variant "main002": part_002 (and the second script of part_003), Puppeteer, *)
(* one listing page expanded by paginate, sequential Ticketsolve refinement    *)

\* const MAX_PAGES = parseInt(process.env.MAX_PAGES || '12', 10)
MAX_PAGES == 12

\* /\bsold\s*out\b/ on texts whose words are separated by at most one space
matchesSoldOut(t) == includes(t, Kw.sold_out) \/ includes(t, Kw.soldout)
\* /\bcancelled|canceled|postponed|rescheduled/
matchesCancelled(t) ==
    \/ includes(t, Kw.cancelled) \/ includes(t, Kw.canceled)
    \/ includes(t, Kw.postponed) \/ includes(t, Kw.rescheduled)

\* const statusFromText = (txt) => ...
statusFromText(txt) ==
    LET t == toLowerCase(txt) IN
    IF matchesSoldOut(t) THEN Txt.SOLD_OUT
    ELSE IF matchesCancelled(t) THEN Txt.CANCELLED
    ELSE IF includes(t, Kw.book) \/ includes(t, Kw.ticket) THEN Txt.BOOK_NOW
    ELSE <<>>

\* const LABEL_TO_PCT = [...]: the pct of the first entry whose re matches, else NoRes
labelToPct(pageText) ==
    IF includes(pageText, Kw.last_few) \/ includes(pageText, Kw.almost_gone) THEN [n |-> 92]
    ELSE IF includes(pageText, Kw.limited) THEN [n |-> 78]
    ELSE IF includes(pageText, Kw.selling_fast) THEN [n |-> 66]
    ELSE IF includes(pageText, Kw.just_added) \/ includes(pageText, Kw.new_date) THEN [n |-> 55]
    ELSE NoRes

\* What a Ticketsolve page shows refineStatusFromTicketsolve: goto or content()
\* throws; else the page text, the progress bar's aria-valuenow and its style width
\* (NoRes: no such element or not a number)
RefineEnvs ==
    {[throws |-> TRUE,  text |-> <<>>,           aria |-> NoRes,      width |-> NoRes],
     [throws |-> FALSE, text |-> <<>>,           aria |-> NoRes,      width |-> NoRes],
     [throws |-> FALSE, text |-> Txt.SOLD_OUT,     aria |-> [n |-> 37], width |-> NoRes],
     [throws |-> FALSE, text |-> Txt.Cancelled,   aria |-> NoRes,      width |-> NoRes],
     [throws |-> FALSE, text |-> Txt.Limited,     aria |-> [n |-> 37], width |-> NoRes],
     [throws |-> FALSE, text |-> <<>>,           aria |-> [n |-> 120], width |-> [n |-> 5]],
     [throws |-> FALSE, text |-> Txt.Limited,     aria |-> NoRes,      width |-> [n |-> 64]],
     [throws |-> FALSE, text |-> Txt.Limited,     aria |-> NoRes,      width |-> NoRes],
     [throws |-> FALSE, text |-> Kw.selling_fast, aria |-> NoRes,      width |-> NoRes]}

\* async function refineStatusFromTicketsolve(page, tsUrl)
refineStatusFromTicketsolve(env) ==
    LET pageText == toLowerCase(env.text)
        bar(n)   == LET pct == Max(0, Min(100, n)) IN
                    [status |-> IF pct >= 100 THEN Txt.SOLD_OUT ELSE Txt.BOOK_NOW,
                     override_pct |-> pct]
    IN  IF env.throws THEN [status |-> Txt.BOOK_NOW, override_pct |-> 48]
        ELSE IF matchesSoldOut(pageText) THEN [status |-> Txt.SOLD_OUT, override_pct |-> 100]
        ELSE IF matchesCancelled(pageText) THEN [status |-> Txt.CANCELLED, override_pct |-> 0]
        ELSE IF env.aria # NoRes THEN bar(env.aria.n)
        ELSE IF env.width # NoRes THEN bar(env.width.n)
        ELSE IF labelToPct(pageText) # NoRes
             THEN [status |-> Txt.BOOK_NOW, override_pct |-> labelToPct(pageText).n]
        ELSE [status |-> Txt.BOOK_NOW, override_pct |-> 48]

\* const toISODateOrNull = (s) => ...  (rawDate is null or a non-empty text)
toISODateOrNull(s) == IF s = null THEN null ELSE parseDate(s)

\* (title, rawDate, CTA text, href) of the cards extractCardsOnPage can see
StubKinds == {<<"A", null, Txt.SOLD_OUT, TsUrl>>,
              <<"A", "2025-10-03T19:30:00Z", Txt.BookNow, TsUrl>>,
              <<"A", null, Txt.Cancelled, EvUrl>>,
              <<"B", null, Txt.MoreInfo, EvUrl>>,
              <<"B", null, Txt.MoreInfo, TsUrl>>}

\* the items of extractCardsOnPage
Stubs ==
    {[title |-> k[1], rawDate |-> k[2], href |-> k[4],
      provisionalStatus |-> statusFromText(k[3])] : k \in StubKinds}

\* a.title.localeCompare(b.title) < 0, titles being single capital letters
titleBefore(a, b) ==
    (CHOOSE k \in 1..Len(UpperChars) : UpperChars[k] = a) <
    (CHOOSE k \in 1..Len(UpperChars) : UpperChars[k] = b)

\* the comparator of clean.sort says a sorts before b (result < 0); the dated
\* events of the model share one start, so localeCompare of two starts is 0
sortsBefore(a, b) ==
    IF a.start # null /\ b.start # null THEN titleBefore(a.title, b.title)
    ELSE IF a.start # null /\ b.start = null THEN TRUE
    ELSE IF a.start = null /\ b.start # null THEN FALSE
    ELSE titleBefore(a.title, b.title)

\* +new Date(start) as a rank on the starts of the model
timeOf(start) == IF start = "2025-10-02T23:00:00.000Z" THEN 1 ELSE 2

\* the comparator of part_001's all.sort says a sorts before b: da - db < 0 with
\* Infinity for a null start (Infinity - Infinity is NaN, which sort reads as 0)
startsBefore(a, b) ==
    IF a.start = null THEN FALSE
    ELSE IF b.start = null THEN TRUE
    ELSE timeOf(a.start) < timeOf(b.start)

\* the comparator in use: that of part_001 or that of part_002
comesBefore(cmp, a, b) == IF cmp = "start" THEN startsBefore(a, b) ELSE sortsBefore(a, b)

\* Array.prototype.sort (stable): insert e behind every element not after it
RECURSIVE insertSorted(_, _, _)
insertSorted(sorted, e, cmp) ==
    IF sorted = <<>> THEN <<e>>
    ELSE IF comesBefore(cmp, e, Head(sorted)) THEN <<e>> \o sorted
    ELSE <<Head(sorted)>> \o insertSorted(Tail(sorted), e, cmp)

RECURSIVE sortEvents(_, _)
sortEvents(events, cmp) ==
    IF events = <<>> THEN <<>>
    ELSE insertSorted(sortEvents(SubSeq(events, 1, Len(events) - 1), cmp),
                      events[Len(events)], cmp)

\* const dedupe = (events) => ...  keyed by `${e.title}__${e.start || ''}`
dedupe(events) ==
    uniqByFrom(events, [k \in 1..Len(events) |-> titleStartKey(events[k])], 1, {})

\* the loop guard were it `pages <= MAX_PAGES`
paginateGoesOn_inclusive(n) == n <= MAX_PAGES

\* the guard of paginate's loop: pages < MAX_PAGES
paginateGoesOn(n) == n < MAX_PAGES

\* main(): page.goto(START_URL); a throw is caught and leaves results empty
Main2_Goto ==
    /\ variant = "main002" /\ pc = "start"
    /\ \E throws \in BOOLEAN : pc' = IF throws THEN "clean" ELSE "paginate"
    /\ UNCHANGED <<variant, todo, cards, idx, out, file, navs, probe, running, stage, pages>>

\* paginate(): one pass of `while (pages < MAX_PAGES)`: the evaluate throws (caught
\* in main), finds nothing to click (break), or clicks and waits.  The local
\* `pages` is gone once paginate is left
Paginate_Iterate ==
    /\ variant = "main002" /\ pc = "paginate" /\ paginateGoesOn(pages)
    /\ \E r \in {"throws", "nothing", "clicked"} :
         /\ pc' = CASE r = "throws" -> "clean" [] r = "nothing" -> "extract" [] OTHER -> pc
         /\ pages' = IF r = "clicked" THEN pages + 1 ELSE 0
    /\ UNCHANGED <<variant, todo, cards, idx, out, file, navs, probe, running, stage>>

\* paginate(): the loop guard fails and paginate returns
Paginate_Return ==
    /\ variant = "main002" /\ pc = "paginate" /\ ~paginateGoesOn(pages)
    /\ pc' = "extract"
    /\ pages' = 0
    /\ UNCHANGED <<variant, todo, cards, idx, out, file, navs, probe, running, stage>>

\* main(): stubs = await extractCardsOnPage(...); a throw is caught, and with no
\* stub the loop body never runs
Main2_Extract ==
    /\ variant = "main002" /\ pc = "extract"
    /\ \E throws \in BOOLEAN, stubs \in UNION {[1..n -> Stubs] : n \in 0..MaxCards} :
         /\ throws => stubs = <<>>
         /\ cards' = stubs
         /\ pc' = IF stubs = <<>> THEN "clean" ELSE "stubs"
    /\ UNCHANGED <<variant, todo, idx, out, file, navs, probe, running, stage, pages>>

\* main(): one pass of `for (const stub of stubs)`
Main2_Stub ==
    /\ variant = "main002" /\ pc = "stubs" /\ idx < Len(cards)
    /\ \E env \in RefineEnvs :
         LET stub   == cards[idx + 1]
             viaTs  == /\ stub.provisionalStatus \notin {Txt.SOLD_OUT, Txt.CANCELLED}
                       /\ stub.href # NoUrl /\ isTicketsolve(stub.href)
             r      == refineStatusFromTicketsolve(env)
             first  == IF stub.provisionalStatus = Txt.SOLD_OUT
                          THEN [status |-> Txt.SOLD_OUT, override_pct |-> 100]
                       ELSE IF stub.provisionalStatus = Txt.CANCELLED
                          THEN [status |-> Txt.CANCELLED, override_pct |-> 0]
                       ELSE IF viaTs THEN r
                       ELSE IF stub.provisionalStatus = Txt.BOOK_NOW
                          THEN [status |-> Txt.BOOK_NOW, override_pct |-> 48]
                       ELSE [status |-> <<>>, override_pct |-> 30]
             last   == IF first.status = <<>>
                       THEN [status |-> Txt.BOOK_NOW, override_pct |-> 48] ELSE first
         IN  /\ (~viaTs) => env = [throws |-> TRUE, text |-> <<>>, aria |-> NoRes, width |-> NoRes]
             /\ out' = Append(out, [title |-> stub.title, start |-> toISODateOrNull(stub.rawDate),
                                    status |-> last.status, override_pct |-> last.override_pct])
             /\ navs' = IF viaTs THEN <<stub.href>> ELSE <<>>
             /\ probe' = [at |-> idx + 1, status |-> stub.provisionalStatus, tried |-> viaTs,
                          measured |-> IF viaTs /\ ~env.throws THEN [pct |-> r.override_pct]
                                       ELSE NoRes]
    /\ idx' = idx + 1
    /\ pc' = IF idx + 1 = Len(cards) THEN "clean" ELSE pc
    /\ UNCHANGED <<variant, todo, cards, file, running, stage, pages>>

\* main(): clean = results.filter.map; dedupe; sort; process.stdout.write
Main2_Write ==
    /\ variant = "main002" /\ pc = "clean"
    /\ file' = writeFile(sortEvents(dedupe(out), "startThenTitle"))
    /\ pc' = "done"
    /\ UNCHANGED <<variant, todo, cards, idx, out, navs, probe, running, stage, pages>>

NextMain2 ==
    \/ Main2_Goto \/ Paginate_Iterate \/ Paginate_Return
    \/ Main2_Extract \/ Main2_Stub \/ Main2_Write

-----------------------------------------------------------------------------
(* Variant "run001": part_001, run() measuring seat maps in a fresh context *)

\* function inferOverridePct(status)
inferOverridePct(status) ==
    LET s == toLowerCase(status) IN
    IF includes(s, Kw.sold) THEN 100
    ELSE IF includes(s, Kw.limited) THEN 85
    ELSE IF includes(s, Kw.last) \/ includes(s, Kw.low) THEN 75
    ELSE IF includes(s, Kw.book) THEN 48
    ELSE 30

\* function pickStatusFromButtons(btnTexts)
pickStatusFromButtons(btnTexts) ==
    LET upper == [k \in 1..Len(btnTexts) |-> toUpperCase(btnTexts[k])] IN
    IF \E k \in 1..Len(upper) : includes(upper[k], Txt.SOLD_OUT) THEN Txt.SOLD_OUT
    ELSE IF \E k \in 1..Len(upper) : includes(upper[k], Txt.BOOK) THEN Txt.BOOK_NOW
    ELSE Txt.MoreInfo

\* (title, dateText, btnTexts, bookUrl, moreInfoUrl) of the cards of a listing page
Run1Kinds == {<<"A", "", <<Txt.MoreInfo, Txt.BookNow>>, TsUrl, EvUrl>>,
              <<"A", "", <<Txt.SOLD_OUT>>, TsUrl, NoUrl>>,
              <<"B", "Fri 3 Oct 2025", <<Txt.MoreInfo>>, NoUrl, EvUrl>>}

\* the cards scrapeListCards returns
Run1Cards ==
    {[title |-> k[1], dateText |-> k[2], status |-> pickStatusFromButtons(k[3]),
      bookUrl |-> k[4], moreInfoUrl |-> k[5]] : k \in Run1Kinds}

\* dayjs(dateText, 'ddd D MMM YYYY', 'en', true): the day at local midnight, or null
cardDate(dateText) ==
    IF dateText = "Fri 3 Oct 2025" THEN "2025-10-02T23:00:00.000Z" ELSE null

\* What followToTicketsolveAndMeasure meets: a throw before any result, else the
\* start read from the page and the seats counted as available and unavailable
MeasureEnvs ==
    {[throws |-> TRUE,  start |-> null, available |-> 0, unavailable |-> 0],
     [throws |-> FALSE, start |-> null, available |-> 0, unavailable |-> 0],
     [throws |-> FALSE, start |-> IsoA, available |-> 0, unavailable |-> 0],
     [throws |-> FALSE, start |-> IsoA, available |-> 1, unavailable |-> 1],
     [throws |-> FALSE, start |-> null, available |-> 0, unavailable |-> 3]}

\* async function followToTicketsolveAndMeasure(browser, card) with
\* openSeatMapAndMeasure: { sold_pct, start }
followToTicketsolveAndMeasure(env) ==
    LET total == env.available + env.unavailable IN
    IF env.throws THEN [sold_pct |-> NoRes, start |-> null]
    ELSE [sold_pct |-> IF total > 0 THEN [n |-> roundPct(env.unavailable, total)] ELSE NoRes,
          start |-> env.start]

\* run(): scrapeListCards of the next page; its goto may throw out of run(); an
\* empty page ends the loop, and run() sorts by start and writes the file
Run1_ListPage ==
    /\ variant = "run001" /\ pc = "start"
    /\ \E throws \in BOOLEAN, batch \in UNION {[1..n -> Run1Cards] : n \in 0..MaxCards} :
         /\ Len(cards) + Len(batch) <= MaxCards
         /\ throws => batch = <<>>
         /\ cards' = cards \o batch
         /\ pc' = IF throws THEN "failed" ELSE IF batch = <<>> THEN "done" ELSE "measure"
         /\ file' = IF ~throws /\ batch = <<>> THEN writeFile(sortEvents(out, "start"))
                    ELSE file
    /\ UNCHANGED <<variant, todo, idx, out, navs, probe, running, stage, pages>>

\* run(): one pass of `for (const card of cards)`
Run1_Card ==
    /\ variant = "run001" /\ pc = "measure" /\ idx < Len(cards)
    /\ \E env \in MeasureEnvs :
         LET card     == cards[idx + 1]
             tried    == card.status \in {Txt.SOLD_OUT, Txt.BOOK_NOW}
             res      == followToTicketsolveAndMeasure(env)
             sold_pct == IF tried THEN res.sold_pct ELSE NoRes
             startM   == IF tried THEN res.start ELSE null
             start    == IF startM = null /\ card.dateText # "" THEN cardDate(card.dateText)
                         ELSE startM
             head     == [title |-> card.title, start |-> start, status |-> card.status]
         IN  /\ (~tried) => env.throws
             /\ out' = Append(out,
                    IF sold_pct # NoRes
                    THEN [title |-> head.title, start |-> head.start, status |-> head.status,
                          sold_pct |-> sold_pct.n]
                    ELSE [title |-> head.title, start |-> head.start, status |-> head.status,
                          override_pct |-> inferOverridePct(card.status)])
             /\ probe' = [at |-> idx + 1, status |-> card.status, tried |-> tried,
                          measured |-> IF sold_pct # NoRes THEN [pct |-> sold_pct.n] ELSE NoRes]
    /\ idx' = idx + 1
    /\ pc' = IF idx + 1 = Len(cards) THEN "start" ELSE pc
    /\ UNCHANGED <<variant, todo, cards, file, navs, running, stage, pages>>

NextRun1 == Run1_ListPage \/ Run1_Card

-----------------------------------------------------------------------------
(* Variant "main005": part_005, main() with tapAvailability and discoverStartISO *)

IsoMidnight == "2025-10-04T00:00:00.000Z"
IsoEvening  == "2025-10-04T19:30:00.000Z"

\* const toISO = (v) => ... of part_005, on the date texts of its cards
toISO5(v) == IF v = "2025-10-04" THEN IsoMidnight ELSE parseDate(v)

\* (title, datetime, dateText) of a card: undated, or dated by day only
M5Heads == {<<"A", "", "">>, <<"B", "2025-10-04", "2025-10-04">>}

\* the items of extractCardsFromPage
M5Cards ==
    {[title |-> h[1], datetime |-> h[2], dateText |-> h[3], status |-> c[1],
      ticketsHref |-> c[2], eventHref |-> c[3]] : h \in M5Heads, c \in MainCtas}

\* x => `${x.title}|${x.start}|${x.override_pct}`
m5FinalKey(x) == <<x.title, x.start, x.override_pct>>

\* What the event page and the seats page show discoverStartISO: the start that
\* extractStartISOFromPage reads there, null when it reads none or the goto throws
StartEnvs == [ev : {null, IsoEvening}, ts : {null, IsoEvening}]

\* async function discoverStartISO(page, currentStartISO, eventUrl, ticketsUrl)
discoverStartISO(currentStartISO, eventUrl, ticketsUrl, env) ==
    IF currentStartISO = null THEN null
    ELSE IF currentStartISO # IsoMidnight THEN currentStartISO
    ELSE IF eventUrl # NoUrl /\ env.ev # null THEN env.ev
    ELSE IF ticketsUrl # NoUrl /\ env.ts # null THEN env.ts
    ELSE currentStartISO

\* what one zone yields: the best hit of the tap once the zone is selected, and the
\* seats countSeatsNow counts
ZoneOutcomes ==
    {[net |-> NoRes, dom |-> [cap |-> 0, avail |-> 0]],
     [net |-> NoRes, dom |-> [cap |-> 2, avail |-> 1]],
     [net |-> [cap |-> 4, avail |-> 1], dom |-> [cap |-> 0, avail |-> 0]]}

\* What a seats page does during computeTicketsolvePct: its goto throws; a later
\* step throws; the tap has a hit right after load (early); else the zones' outcomes
TapEnvs ==
    {[gotoThrows |-> TRUE,  throws |-> FALSE, early |-> NoRes, zones |-> <<>>],
     [gotoThrows |-> FALSE, throws |-> TRUE,  early |-> NoRes, zones |-> <<>>],
     [gotoThrows |-> FALSE, throws |-> FALSE, early |-> [cap |-> 4, avail |-> 5], zones |-> <<>>]}
    \cup {[gotoThrows |-> FALSE, throws |-> FALSE, early |-> NoRes, zones |-> z] :
             z \in UNION {[1..n -> ZoneOutcomes] : n \in 1..2}}

\* the `for (const z of zones)` loop of computeTicketsolvePct from zone k on
RECURSIVE zoneTotals(_, _, _, _)
zoneTotals(zones, k, totalCap, totalAvail) ==
    IF k > Len(zones) THEN [cap |-> totalCap, avail |-> totalAvail]
    ELSE IF zones[k].net # NoRes /\ zones[k].net.cap > 0 THEN zones[k].net
    ELSE IF zones[k].dom.cap > 0
         THEN zoneTotals(zones, k + 1, totalCap + zones[k].dom.cap,
                         totalAvail + zones[k].dom.avail)
         ELSE zoneTotals(zones, k + 1, totalCap, totalAvail)

\* { capacity, remaining, sold, pct } as computeTicketsolvePct of part_005 builds it
tapResult(best) ==
    [capacity |-> best.cap, remaining |-> best.avail, sold |-> best.cap - best.avail,
     pct |-> clamp(IF best.cap - best.avail < 0 THEN 0
                   ELSE roundPct(best.cap - best.avail, best.cap), 0, 100)]

\* async function computeTicketsolvePct(page, url, diagName) of part_005
computeTicketsolvePct5(env) ==
    LET totals == zoneTotals(env.zones, 1, 0, 0) IN
    IF env.gotoThrows THEN [res |-> NoRes, threw |-> FALSE]
    ELSE IF env.throws THEN [res |-> NoRes, threw |-> TRUE]
    ELSE IF env.early # NoRes /\ env.early.cap > 0
         THEN [res |-> tapResult(env.early), threw |-> FALSE]
    ELSE IF totals.cap > 0 THEN [res |-> tapResult(totals), threw |-> FALSE]
    ELSE [res |-> NoRes, threw |-> FALSE]

\* main(): p0.goto(LIST_URL), expand, collectPaginationUrls; a throw leaves main
M5_Start ==
    /\ variant = "main005" /\ pc = "start"
    /\ \E ok \in BOOLEAN, n \in 1..MaxListPages :
         IF ok THEN pc' = "list" /\ todo' = n
               ELSE pc' = "failed" /\ todo' = todo
    /\ UNCHANGED <<variant, cards, idx, out, file, navs, probe, running, stage, pages>>

\* main(): one pass of `for (const url of pageUrls)`; after the last page the
\* cards are made unique
M5_ListPage ==
    /\ variant = "main005" /\ pc = "list" /\ todo > 0
    /\ \E failed \in BOOLEAN, batch \in UNION {[1..n -> M5Cards] : n \in 0..MaxCards} :
         /\ Len(cards) + Len(batch) <= MaxCards
         /\ failed => batch = <<>>
         /\ LET raw == cards \o batch IN
            IF todo > 1
            THEN cards' = raw /\ pc' = pc
            ELSE /\ cards' = uniqBy(raw, [k \in 1..Len(raw) |-> mainCardKey(raw[k])])
                 /\ pc' = "enrich"
    /\ todo' = todo - 1
    /\ UNCHANGED <<variant, idx, out, file, navs, probe, running, stage, pages>>

\* main(): one pass of `for (let i = 0; i < cards.length; i++)`
M5_Enrich ==
    /\ variant = "main005" /\ pc = "enrich" /\ idx < Len(cards)
    /\ \E found \in FindResults, senv \in StartEnvs, env \in TapEnvs :
         LET c        == cards[idx + 1]
             needFind == ~isTicketsolve(c.ticketsHref) /\ c.eventHref # NoUrl
             tickets  == IF needFind THEN found ELSE c.ticketsHref
             startA   == IF c.datetime # "" THEN toISO5(c.datetime) ELSE null
             startB   == IF c.dateText # "" THEN toISO5(c.dateText) ELSE null
             start0   == IF startA # null THEN startA ELSE startB
             refined  == discoverStartISO(start0, c.eventHref, tickets, senv)
             start    == IF start0 # null /\ refined # null THEN refined ELSE start0
             tried    == tickets # NoUrl
             r        == computeTicketsolvePct5(env)
             measured == IF tried THEN r.res ELSE NoRes
             pct      == pctOrFallback(measured, statusToPct(c.status))
         IN  /\ (~needFind) => found = NoUrl
             /\ (start0 # IsoMidnight) => senv = [ev |-> null, ts |-> null]
             /\ (~tried) => env.gotoThrows
             /\ out' = Append(out, [title |-> c.title, start |-> start,
                                    status |-> toUpperCase(c.status), override_pct |-> pct])
             /\ navs' = (IF needFind THEN <<c.eventHref>> ELSE <<>>)
                        \o (IF start0 = IsoMidnight /\ c.eventHref # NoUrl
                            THEN <<c.eventHref>> ELSE <<>>)
                        \o (IF start0 = IsoMidnight /\ tried
                               /\ ~(c.eventHref # NoUrl /\ senv.ev # null)
                            THEN <<IF hasSeats(tickets) THEN tickets ELSE withSeats(tickets)>>
                            ELSE <<>>)
                        \o (IF tried
                            THEN <<IF hasSeats(tickets) THEN tickets ELSE withSeats(tickets)>>
                            ELSE <<>>)
             /\ probe' = [at |-> idx + 1, status |-> c.status, tried |-> tried,
                          measured |-> measured]
    /\ idx' = idx + 1
    /\ UNCHANGED <<variant, pc, todo, cards, file, running, stage, pages>>

\* main(): uniqBy(out, ...), writeFile
M5_Write ==
    /\ variant = "main005" /\ pc = "enrich" /\ idx = Len(cards)
    /\ file' = writeFile(uniqBy(out, [k \in 1..Len(out) |-> m5FinalKey(out[k])]))
    /\ pc' = "done"
    /\ UNCHANGED <<variant, todo, cards, idx, out, navs, probe, running, stage, pages>>

NextMain5 == M5_Start \/ M5_ListPage \/ M5_Enrich \/ M5_Write

-----------------------------------------------------------------------------
(* Variant "listing000": the script of part_000, a crawl of                      *)
(* the pager's listing pages with no Ticketsolve lookups.  The date texts of    *)
(* this variant are character sequences; a start is NoRes (null) or [text]      *)

\* the date texts a card can show
DateTxt ==
    [tbc |-> <<" ","T","B","C"," ">>,
     day |-> <<"2","0","2","5","-","1","0","-","0","3">>,
     iso |-> <<"2","0","2","5","-","1","0","-","0","3","T","1","9",":","3","0",":","0","0",".","0","0","0","Z">>,
     badMonth |-> <<"2","0","2","5","-","1","3","-","4","5">>,
     prefixed |-> <<"2","0","2","5","-","1","0","-","0","3"," ","d","o","o","r","s"," ","7","p","m">>,
     words |-> <<"3"," ","O","c","t","o","b","e","r"," ","2","0","2","5">>,
     midnight |-> <<"2","0","2","5","-","1","0","-","0","3","T","0","0",":","0","0",":","0","0",".","0","0","0","Z">>]

Digits == <<"0","1","2","3","4","5","6","7","8","9">>
isDigit(c) == \E k \in 1..Len(Digits) : Digits[k] = c
\* the number a sequence of digit characters writes
RECURSIVE numberOf(_)
numberOf(ds) ==
    IF ds = <<>> THEN 0
    ELSE 10 * numberOf(SubSeq(ds, 1, Len(ds) - 1))
         + (CHOOSE k \in 0..9 : Digits[k + 1] = ds[Len(ds)])

\* s.replace(/\s+/g, ' '): runs of spaces become one space
RECURSIVE squeeze(_)
squeeze(t) ==
    IF Len(t) < 2 THEN t
    ELSE IF t[1] = " " /\ t[2] = " " THEN squeeze(Tail(t))
    ELSE <<t[1]>> \o squeeze(Tail(t))

\* String.prototype.trim
RECURSIVE trim(_)
trim(t) ==
    IF t = <<>> THEN t
    ELSE IF t[1] = " " THEN trim(Tail(t))
    ELSE IF t[Len(t)] = " " THEN trim(SubSeq(t, 1, Len(t) - 1))
    ELSE t

\* const clean = s => (s || '').replace(/\s+/g, ' ').trim()
clean(t) == trim(squeeze(t))

\* /^\d{4}-\d{2}-\d{2}/.test(t)
hasDatePrefix(t) ==
    /\ Len(t) >= 10
    /\ \A k \in {1, 2, 3, 4, 6, 7, 9, 10} : isDigit(t[k])
    /\ t[5] = "-" /\ t[8] = "-"

\* new Date(Date.parse(t)).toISOString() on the texts of the model that carry no
\* YYYY-MM-DD prefix, on a machine whose clock is UTC; NoRes when Date.parse is NaN
dateParseISO(t) == IF t = DateTxt.words THEN [text |-> DateTxt.midnight] ELSE NoRes

\* function normalizeStart(dateText)
normalizeStart(dateText) ==
    LET t == clean(dateText) IN
    IF t = <<>> THEN NoRes
    ELSE IF hasDatePrefix(t) THEN [text |-> t]
    ELSE dateParseISO(t)

\* t is an ISO-8601 calendar date YYYY-MM-DD
isISODate(t) ==
    /\ Len(t) = 10 /\ hasDatePrefix(t)
    /\ numberOf(SubSeq(t, 6, 7)) \in 1..12
    /\ numberOf(SubSeq(t, 9, 10)) \in 1..31

\* t is an ISO-8601 timestamp: a calendar date, or YYYY-MM-DDTHH:MM:SS.mmmZ
isISO8601(t) ==
    \/ isISODate(t)
    \/ /\ Len(t) = 24 /\ isISODate(SubSeq(t, 1, 10))
       /\ t[11] = "T" /\ t[14] = ":" /\ t[17] = ":" /\ t[20] = "." /\ t[24] = "Z"
       /\ \A k \in {12, 13, 15, 16, 18, 19, 21, 22, 23} : isDigit(t[k])
       /\ numberOf(SubSeq(t, 12, 13)) \in 0..23
       /\ numberOf(SubSeq(t, 15, 16)) \in 0..59
       /\ numberOf(SubSeq(t, 18, 19)) \in 0..59

\* a regular expression a\s*b on texts whose blanks are single spaces
spaced(t, a, b) == includes(t, a \o <<" ">> \o b) \/ includes(t, a \o b)

\* function statusToPct(label = '') of the listing crawl
statusToPct0(label) ==
    LET s == toLowerCase(label) IN
    IF spaced(s, Kw.sold, Kw.out) THEN 100
    ELSE IF \/ includes(s, Kw.limited)
            \/ spaced(s, Kw.last, Kw.few) \/ spaced(s, Kw.last, Kw.remaining)
            \/ spaced(s, Kw.almost, Kw.sold) \/ spaced(s, Kw.low, Kw.availability) THEN 92
    ELSE IF spaced(s, Kw.selling, Kw.fast) \/ spaced(s, Kw.best, Kw.availability) THEN 70
    ELSE IF spaced(s, Kw.book, Kw.now) \/ spaced(s, Kw.on, Kw.sale)
            \/ includes(s, Kw.available) THEN 48
    ELSE 30

\* the rows page.evaluate returns for the cards of a listing page
ListRows ==
    { [title |-> "A", dateText |-> <<>>,             status |-> Txt.SOLD_OUT],
      [title |-> "A", dateText |-> DateTxt.prefixed, status |-> Txt.BookNow],
      [title |-> "A", dateText |-> DateTxt.iso,      status |-> Txt.Limited],
      [title |-> "B", dateText |-> DateTxt.words,    status |-> <<>>],
      [title |-> "B", dateText |-> DateTxt.badMonth, status |-> Txt.BookNow],
      [title |-> "B", dateText |-> DateTxt.tbc,      status |-> Txt.MoreInfo] }

\* extractFromListing's key `${title}|${dateText}`
rowKey(r) == <<r.title, r.dateText>>

\* extractFromListing(page): one event per row kept by the page's `seen` set
extractFromListing(rows) ==
    LET kept == uniqBy(rows, [k \in 1..Len(rows) |-> rowKey(rows[k])])
    IN  [k \in 1..Len(kept) |->
           [title |-> kept[k].title, start |-> normalizeStart(kept[k].dateText),
            status |-> clean(kept[k].status),
            override_pct |-> statusToPct0(kept[k].status)]]

\* Date.parse(a.start) as a rank; 0 where it is NaN, 3 for Infinity (no start)
startRank(start) ==
    IF start = NoRes THEN 3
    ELSE IF start.text = DateTxt.midnight THEN 1
    ELSE IF start.text \in {DateTxt.iso, DateTxt.day} THEN 2
    ELSE 0

\* all.sort((a, b) => da - db) puts a before b: a difference with NaN is not < 0
rankBefore(a, b) ==
    /\ startRank(a.start) # 0 /\ startRank(b.start) # 0
    /\ startRank(a.start) < startRank(b.start)

RECURSIVE sortByStart(_)
sortByStart(events) ==
    IF events = <<>> THEN <<>>
    ELSE LET front == sortByStart(SubSeq(events, 1, Len(events) - 1))
             e     == events[Len(events)]
             at    == Cardinality({k \in 1..Len(front) : ~rankBefore(e, front[k])})
         IN  SubSeq(front, 1, at) \o <<e>> \o SubSeq(front, at + 1, Len(front))

\* the output file a former run left
OldFile ==
    [written |-> FALSE,
     events |-> <<[title |-> "Old", start |-> NoRes, status |-> <<>>, override_pct |-> 30]>>]

\* fs.existsSync(OUT)
existsSync(f) == f # NoFile

\* the run would keep the former file whenever it extracted nothing
preserves_anyEmpty(all, f) == Len(all) = 0

\* if (all.length === 0 && fs.existsSync(OUT))
preserves(all, f) == Len(all) = 0 /\ existsSync(f)

\* main: browser launch, page.goto(START_URL), paginatedUrls(page)
List0_Start ==
    /\ variant = "listing000" /\ pc = "start"
    /\ \E throws \in BOOLEAN, n \in 1..MaxListPages :
         /\ throws => n = 1
         /\ pc' = IF throws THEN "failed" ELSE "list"
         /\ todo' = IF throws THEN 0 ELSE n
    /\ UNCHANGED <<variant, cards, idx, out, file, navs, probe, running, stage, pages>>

\* main: one pass of `for (const url of urls)`: goto, extractFromListing, push
List0_Page ==
    /\ variant = "listing000" /\ pc = "list" /\ idx < todo
    /\ \E throws \in BOOLEAN, rows \in UNION {[1..n -> ListRows] : n \in 0..MaxCards} :
         /\ Len(out) + Len(rows) <= MaxCards
         /\ throws => rows = <<>>
         /\ out' = out \o extractFromListing(rows)
         /\ pc' = IF throws THEN "failed" ELSE pc
    /\ idx' = idx + 1
    /\ UNCHANGED <<variant, todo, cards, file, navs, probe, running, stage, pages>>

\* main: sort by start, then keep the former file or write this run's array
List0_Write ==
    /\ variant = "listing000" /\ pc = "list" /\ idx = todo
    /\ out' = sortByStart(out)
    /\ file' = IF preserves(out, file) THEN file ELSE writeFile(sortByStart(out))
    /\ pc' = "done"
    /\ UNCHANGED <<variant, todo, cards, idx, navs, probe, running, stage, pages>>

NextList0 == List0_Start \/ List0_Page \/ List0_Write

-----------------------------------------------------------------------------
(* Variant "scrape": the single-page script of scrape-dmh.js (lines 265-507).   *)
(* One page reads the listing's card handles and is also the page that          *)
(* probeTicketsolveAvailability navigates.  navs holds the URL that took the    *)
(* page off the listing; stage holds the closure of the probe in progress:      *)
(*   best     - the variable `best`                                             *)
(*   late     - the pair of a response handler still awaiting resp.text()      *)
(*   recorded - a handler has assigned `best` during this probe                *)

\* function parseDateUK(text): new Date(text + ' 19:30').toISOString() or null
parseDateUK(text) == IF text = "Fri 3 Oct 2025" THEN IsoA ELSE null

\* what page.$$('.card-event') hands out: title, date text, CTA text and href
ScrapeCards ==
    { [title |-> "A", dateText |-> "Fri 3 Oct 2025", status |-> Txt.BookNow, ctaHref |-> TsUrl],
      [title |-> "B", dateText |-> "",               status |-> Txt.MoreInfo, ctaHref |-> EvUrl],
      [title |-> "",  dateText |-> "",               status |-> Txt.BookNow, ctaHref |-> EvUrl] }

\* bits plus one, as a sequence of bits (most significant first)
incBits(bits) ==
    LET zeros == {k \in 1..Len(bits) : bits[k] = 0}
        j     == IF zeros = {} THEN 0 ELSE CHOOSE k \in zeros : \A i \in zeros : i <= k
    IN  [k \in 1..(IF j = 0 THEN Len(bits) + 1 ELSE Len(bits)) |->
            IF j = 0 THEN (IF k = 1 THEN 1 ELSE 0)
            ELSE IF k < j THEN bits[k] ELSE IF k = j THEN 1 ELSE 0]

\* an integer given by its bits, rounded to 53 significant bits, ties to even:
\* what a double keeps of it
round53(bits) ==
    IF Len(bits) <= 53 THEN bits
    ELSE LET kept == SubSeq(bits, 1, 53)
             drop == SubSeq(bits, 54, Len(bits))
             more == \E k \in 2..Len(drop) : drop[k] = 1
             up   == drop[1] = 1 /\ (more \/ kept[53] = 1)
         IN  (IF up THEN incBits(kept) ELSE kept) \o [k \in 1..Len(drop) |-> 0]

\* round((sold / capacity) * 100) as JavaScript evaluates it, 0 <= sold <= cap:
\* the quotient is rounded to a double, its product with 100 is rounded to a
\* double, and Math.round takes the nearest integer, halves upwards
jsRoundPct(sold, cap) ==
    LET rem[n \in Nat] == IF n = 0 THEN sold ELSE (2 * rem[n - 1]) % cap
        bit(n) == IF 2 * rem[n - 1] >= cap THEN 1 ELSE 0
        first  == CHOOSE n \in 1..31 : bit(n) = 1 /\ \A j \in 1..(n - 1) : bit(j) = 0
        raw    == [k \in 1..53 |-> bit(first + k - 1)]
        last   == rem[first + 52]
        qUp    == 2 * last > cap \/ (2 * last = cap /\ raw[53] = 1)
        quot   == IF qUp THEN incBits(raw) ELSE raw
        L      == Len(quot)
        carry[i \in Nat] ==
            IF i = 0 THEN 0 ELSE (quot[L + 1 - i] * 100 + carry[i - 1]) \div 2
        low    == [k \in 1..L |-> (quot[k] * 100 + carry[L - k]) % 2]
        high   == [k \in 1..7 |-> (carry[L] \div <<64, 32, 16, 8, 4, 2, 1>>[k]) % 2]
        lead   == CHOOSE k \in 1..7 : high[k] = 1 /\ \A j \in 1..(k - 1) : high[j] = 0
        prod   == round53(SubSeq(high, lead, 7) \o low)
        whole  == Len(prod) - (first + 52)
        int[k \in Nat] == IF k = 0 THEN 0 ELSE 2 * int[k - 1] + prod[k]
    IN  IF sold = 0 THEN 0
        ELSE IF sold = cap THEN 100
        ELSE IF whole < 0 THEN 0
        ELSE int[whole] + prod[whole + 1]

\* the result were `remaining` reported as the payload gives it
availabilityOf_unclamped(best) ==
    IF best # NoRes /\ best.capacity > 0
    THEN LET sold == best.capacity - clamp(best.remaining, 0, best.capacity)
         IN  [capacity |-> best.capacity, remaining |-> best.remaining, sold |-> sold,
              pct |-> clamp(jsRoundPct(sold, best.capacity), 0, 100)]
    ELSE NoRes

\* the end of probeTicketsolveAvailability: if (best && best.capacity > 0) ...
availabilityOf(best) ==
    IF best # NoRes /\ best.capacity > 0
    THEN LET remaining == clamp(best.remaining, 0, best.capacity)
             sold      == best.capacity - remaining
         IN  [capacity |-> best.capacity, remaining |-> remaining, sold |-> sold,
              pct |-> clamp(jsRoundPct(sold, best.capacity), 0, 100)]
    ELSE NoRes

\* the event scrape() pushes for a card, given what the probe returned
scrapeEvent(c, avail) ==
    [title |-> c.title, start |-> parseDateUK(c.dateText), status |-> c.status,
     override_pct |-> pctOrFallback(avail, statusToPct(c.status))]

\* scrape(): goto the listing, scroll, page.$$ of the cards
Scrape_Start ==
    /\ variant = "scrape" /\ pc = "start"
    /\ \E throws \in BOOLEAN, list \in UNION {[1..n -> ScrapeCards] : n \in 0..MaxCards} :
         /\ throws => list = <<>>
         /\ cards' = list
         /\ pc' = IF throws THEN "failed" ELSE "cards"
    /\ UNCHANGED <<variant, todo, idx, out, file, navs, probe, running, stage, pages>>

\* scrape(): one pass of `for (const card of cards)` up to the point where the
\* probe's goto/networkidle/sleep have settled and page.off has run.  A handle
\* read on a page that has left the listing throws, and .catch(() => '') makes
\* the title empty
Scrape_Card ==
    /\ variant = "scrape" /\ pc = "cards" /\ idx < Len(cards)
    /\ LET c     == cards[idx + 1]
           title == IF navs # <<>> THEN "" ELSE c.title
       IN  IF title = ""
           THEN /\ idx' = idx + 1
                /\ UNCHANGED <<pc, out, navs, probe, stage>>
           ELSE IF ~isTicketsolve(c.ctaHref)
           THEN /\ out' = Append(out, scrapeEvent(c, NoRes))
                /\ probe' = [at |-> Len(out) + 1, status |-> c.status, tried |-> FALSE,
                             measured |-> NoRes, recorded |-> FALSE]
                /\ idx' = idx + 1
                /\ UNCHANGED <<pc, navs, stage>>
           ELSE \E left \in BOOLEAN, net \in {NoRes} \cup NetPairs,
                   late \in {NoRes} \cup DomPairs :
                  /\ ~left => (net = NoRes /\ late = NoRes)
                  /\ net # NoRes => late = NoRes
                  /\ navs' = IF left THEN <<c.ctaHref>> ELSE navs
                  /\ IF net # NoRes
                     THEN /\ out' = Append(out, scrapeEvent(c, availabilityOf(net)))
                          /\ probe' = [at |-> Len(out) + 1, status |-> c.status,
                                       tried |-> TRUE, measured |-> availabilityOf(net),
                                       recorded |-> TRUE]
                          /\ idx' = idx + 1
                          /\ UNCHANGED <<pc, stage>>
                     ELSE /\ stage' = <<[best |-> NoRes, late |-> late, recorded |-> FALSE]>>
                          /\ pc' = "boot"
                          /\ UNCHANGED <<idx, out, probe>>
    /\ UNCHANGED <<variant, todo, cards, file, running, pages>>

\* handler(resp) resumes after `await resp.text()` while the probe awaits
\* page.evaluate: if (!best || extracted.capacity > best.capacity) best = extracted
Scrape_LateHandler ==
    /\ variant = "scrape" /\ pc = "boot" /\ stage[1].late # NoRes
    /\ stage' = <<[best |-> stage[1].late, late |-> NoRes, recorded |-> TRUE]>>
    /\ UNCHANGED <<variant, pc, todo, cards, idx, out, file, navs, probe, running, pages>>

\* probeTicketsolveAvailability after `await page.evaluate(...)`: the assignment
\* best = extractCapacityFromJSON(boot) || ..., skipped when evaluate threw, the
\* final if, and the rest of the card's pass in scrape()
Scrape_Boot ==
    /\ variant = "scrape" /\ pc = "boot"
    /\ \E throws \in BOOLEAN,
          boot \in {NoRes} \cup DomPairs
                   \cup {[capacity |-> 40, remaining |-> 17], [capacity |-> 3, remaining |-> 0]} :
         /\ throws => boot = NoRes
         /\ LET c     == cards[idx + 1]
                best  == IF throws THEN stage[1].best ELSE boot
                avail == availabilityOf(best)
            IN  /\ out' = Append(out, scrapeEvent(c, avail))
                /\ probe' = [at |-> Len(out) + 1, status |-> c.status, tried |-> TRUE,
                             measured |-> avail, recorded |-> stage[1].recorded]
    /\ stage' = <<>>
    /\ pc' = "cards"
    /\ idx' = idx + 1
    /\ UNCHANGED <<variant, todo, cards, file, navs, running, pages>>

\* scrape(): dedup by title|start, mkdir, writeFile
Scrape_Write ==
    /\ variant = "scrape" /\ pc = "cards" /\ idx = Len(cards)
    /\ file' = writeFile(uniqBy(out, [k \in 1..Len(out) |-> titleStartKey(out[k])]))
    /\ pc' = "done"
    /\ UNCHANGED <<variant, todo, cards, idx, out, navs, probe, running, stage, pages>>

NextScrape ==
    Scrape_Start \/ Scrape_Card \/ Scrape_LateHandler \/ Scrape_Boot \/ Scrape_Write

-----------------------------------------------------------------------------
(* Variant "watchdog": the third script of part_004 (lines 774-1561).  main()    *)
(* works through the cards one after the other; card i uses the pooled page      *)
(* i % CONCURRENCY for up to three awaited steps, each raced against a timer by  *)
(* withDeadline.  stage holds main's locals for the current card:                *)
(*   step - the step main is about to start or is awaiting                       *)
(*   tickets, start, pct - the locals of the loop body                           *)
(* running holds the steps whose deadline fired: their promises were never       *)
(* cancelled and go on driving their page until they settle.                     *)

CONCURRENCY == 3

\* What the seats page and the event page show discoverStartISO:
\*   gotoThrows - the goto of the seats page throws
\*   row, dom, sniff - what extractStartFromTicketsolveRow, extractStartISOFromPage
\*                and sniffStartFromNetwork find on the seats page
\*   first      - which of the two raced promises settles first
\*   ev         - what extractStartISOFromPage finds on the event page
RaceEnvs ==
    {e \in [gotoThrows : BOOLEAN, row : {null, IsoEvening}, dom : {null, IsoEvening},
            sniff : {null, IsoEvening}, first : {"dom", "sniff"},
            ev : {null, "2025-10-04T18:00:00.000Z"}] :
        /\ e.gotoThrows => (e.row = null /\ e.dom = null /\ e.sniff = null)
        /\ e.row # null => (e.dom = null /\ e.sniff = null)
        /\ (e.dom = e.sniff) => e.first = "dom"}

\* async function discoverStartISO(page, currentStartISO, eventUrl, ticketsUrl) of
\* the watchdog script: Promise.race settles with the first promise, null or not
discoverStartISO_race(currentStartISO, eventUrl, ticketsUrl, env) ==
    LET winner == IF env.first = "dom" THEN env.dom ELSE env.sniff
        onSeats == IF ticketsUrl = NoUrl \/ env.gotoThrows THEN null
                   ELSE IF env.row # null THEN env.row
                   ELSE winner
    IN  IF currentStartISO = null THEN null
        ELSE IF currentStartISO # IsoMidnight THEN currentStartISO
        ELSE IF onSeats # null THEN onSeats
        ELSE IF eventUrl # NoUrl /\ env.ev # null THEN env.ev
        ELSE currentStartISO

\* the step of the loop body that follows a step
stepAfter(step) ==
    CASE step = "find" -> "refine" [] step = "refine" -> "count" [] OTHER -> "push"

\* main(): the list crawl up to `const tsPages = []`
Wd_Start ==
    /\ variant = "watchdog" /\ pc = "start"
    /\ \E throws \in BOOLEAN, list \in UNION {[1..n -> M5Cards] : n \in 0..MaxCards} :
         /\ throws => list = <<>>
         /\ cards' = uniqBy(list, [k \in 1..Len(list) |-> mainCardKey(list[k])])
         /\ pc' = IF throws THEN "failed" ELSE "idle"
    /\ UNCHANGED <<variant, todo, idx, out, file, navs, probe, running, stage, pages>>

\* main(): the head of a loop pass: const c = cards[i]; let tickets; let start
Wd_Card ==
    /\ variant = "watchdog" /\ pc = "idle" /\ stage = <<>> /\ idx < Len(cards)
    /\ LET c      == cards[idx + 1]
           startA == IF c.datetime # "" THEN toISO5(c.datetime) ELSE null
           startB == IF c.dateText # "" THEN toISO5(c.dateText) ELSE null
       IN  stage' = <<[step |-> "find", tickets |-> c.ticketsHref,
                       start |-> IF startA # null THEN startA ELSE startB,
                       pct |-> NoRes]>>
    /\ UNCHANGED <<variant, pc, todo, cards, idx, out, file, navs, probe, running, pages>>

\* main(): the `if` in front of a step; the step is called on the pooled page and
\* main awaits withDeadline(...), or the step is passed over
Wd_Begin ==
    /\ variant = "watchdog" /\ pc = "idle" /\ stage # <<>> /\ stage[1].step # "push"
    /\ LET s == stage[1]
           c == cards[idx + 1]
           applies ==
               CASE s.step = "find"   -> ~isTicketsolve(s.tickets) /\ c.eventHref # NoUrl
                 [] s.step = "refine" -> s.start # null
                 [] OTHER             -> s.tickets # NoUrl
       IN  IF applies
           THEN pc' = "await" /\ UNCHANGED stage
           ELSE stage' = <<[s EXCEPT !.step = stepAfter(s.step)]>> /\ UNCHANGED pc
    /\ UNCHANGED <<variant, todo, cards, idx, out, file, navs, probe, running, pages>>

\* withDeadline: the step's promise settles before the timer
Wd_Settle ==
    /\ variant = "watchdog" /\ pc = "await"
    /\ LET s == stage[1]
           c == cards[idx + 1]
       IN  CASE s.step = "find" ->
                  \E found \in FindResults :
                     /\ stage' = <<[s EXCEPT !.step = "refine", !.tickets = found]>>
                     /\ UNCHANGED probe
             [] s.step = "refine" ->
                  \E env \in RaceEnvs :
                     LET refined == discoverStartISO_race(s.start, c.eventHref, s.tickets, env)
                     IN  /\ (s.start # IsoMidnight \/ s.tickets = NoUrl) =>
                               (env.gotoThrows /\ env.first = "dom")
                         /\ stage' = <<[s EXCEPT !.step = "count",
                                          !.start = IF refined # null THEN refined ELSE @]>>
                         /\ probe' = [at |-> idx + 1, start |-> s.start,
                                      tickets |-> s.tickets, env |-> env,
                                      refined |-> refined]
             [] OTHER ->
                  \E env \in TapEnvs :
                     /\ stage' = <<[s EXCEPT !.step = "push",
                                      !.pct = computeTicketsolvePct5(env).res]>>
                     /\ UNCHANGED probe
    /\ pc' = "idle"
    /\ UNCHANGED <<variant, todo, cards, idx, out, file, navs, running, pages>>

\* withDeadline: the timer fires first and the race rejects; main's catch logs
\* and goes on, the step's promise is left running on its page
Wd_Timeout ==
    /\ variant = "watchdog" /\ pc = "await"
    /\ running' = running \cup {[page |-> idx % CONCURRENCY, step |-> stage[1].step]}
    /\ stage' = <<[stage[1] EXCEPT !.step = stepAfter(stage[1].step)]>>
    /\ pc' = "idle"
    /\ UNCHANGED <<variant, todo, cards, idx, out, file, navs, probe, pages>>

\* a step whose deadline had fired comes to its end
Wd_Abandoned ==
    /\ variant = "watchdog" /\ pc \in {"idle", "await"}
    /\ \E r \in running : running' = running \ {r}
    /\ UNCHANGED <<variant, pc, todo, cards, idx, out, file, navs, probe, stage, pages>>

\* main(): if (pct == null) pct = statusToPct(c.status); out.push({...})
Wd_Push ==
    /\ variant = "watchdog" /\ pc = "idle" /\ stage # <<>> /\ stage[1].step = "push"
    /\ LET c == cards[idx + 1] IN
       out' = Append(out, [title |-> c.title, start |-> stage[1].start,
                           status |-> toUpperCase(c.status),
                           override_pct |-> pctOrFallback(stage[1].pct, statusToPct(c.status))])
    /\ stage' = <<>>
    /\ idx' = idx + 1
    /\ UNCHANGED <<variant, pc, todo, cards, file, navs, probe, running, pages>>

\* main(): uniqBy(out, ...), writeFile; the finally closes context and browser
Wd_Write ==
    /\ variant = "watchdog" /\ pc = "idle" /\ stage = <<>> /\ idx = Len(cards)
    /\ file' = writeFile(uniqBy(out, [k \in 1..Len(out) |-> m5FinalKey(out[k])]))
    /\ running' = {}
    /\ pc' = "done"
    /\ UNCHANGED <<variant, todo, cards, idx, out, navs, probe, stage, pages>>

NextWatchdog ==
    \/ Wd_Start \/ Wd_Card \/ Wd_Begin \/ Wd_Settle \/ Wd_Timeout \/ Wd_Abandoned
    \/ Wd_Push \/ Wd_Write

-----------------------------------------------------------------------------
(* parseUkDateTimeToISO of scrape-dmh.js (lines 29-64), applied to one input.   *)
(* An input is NoRes when the text is empty or the regular expression does not  *)
(* match, else the groups the match captures; an instant is given by its UTC    *)
(* calendar fields (month counted from 0, as Date.UTC counts it)                *)

\* the texts getStartISOFromTicketsolve can hand to parseUkDateTimeToISO
UkInputs ==
    {NoRes} \cup
    [day : {3, 31}, mon : {<<"J","a","n">>, <<"j","u","l","y">>, <<"O","c","t","o","b","e","r">>,
                           <<"S","e","p","t">>},
     year : {2025}, hour : {0, 1, 7, 12, 19, 23}, minute : {0, 30},
     ampm : {<<>>, <<"A","M">>, <<"p","m">>}]

\* function parseUkDateTimeToISO(input)
parseUkDateTimeToISO(m) ==
    LET months == {<<<<"j","a","n","u","a","r","y">>, 0>>,
              <<<<"f","e","b","r","u","a","r","y">>, 1>>,
              <<<<"m","a","r","c","h">>, 2>>,
              <<<<"a","p","r","i","l">>, 3>>,
              <<<<"m","a","y">>, 4>>,
              <<<<"j","u","n","e">>, 5>>,
              <<<<"j","u","l","y">>, 6>>,
              <<<<"a","u","g","u","s","t">>, 7>>,
              <<<<"s","e","p","t","e","m","b","e","r">>, 8>>,
              <<<<"o","c","t","o","b","e","r">>, 9>>,
              <<<<"n","o","v","e","m","b","e","r">>, 10>>,
              <<<<"d","e","c","e","m","b","e","r">>, 11>>,
              <<<<"j","a","n">>, 0>>,
              <<<<"f","e","b">>, 1>>,
              <<<<"m","a","r">>, 2>>,
              <<<<"a","p","r">>, 3>>,
              <<<<"j","u","n">>, 5>>,
              <<<<"j","u","l">>, 6>>,
              <<<<"a","u","g">>, 7>>,
              <<<<"s","e","p">>, 8>>,
              <<<<"o","c","t">>, 9>>,
              <<<<"n","o","v">>, 10>>,
              <<<<"d","e","c">>, 11>>}
        monName == toLowerCase(m.mon)
        ampm    == toUpperCase(m.ampm)
        hour    == IF ampm = <<"P","M">> /\ m.hour < 12 THEN m.hour + 12
                   ELSE IF ampm = <<"A","M">> /\ m.hour = 12 THEN 0
                   ELSE m.hour
    IN  IF m = NoRes THEN NoRes
        ELSE IF ~\E e \in months : e[1] = monName THEN NoRes
        ELSE [year |-> m.year, month |-> (CHOOSE e \in months : e[1] = monName)[2],
              day |-> m.day, hour |-> hour, minute |-> m.minute]

\* one call of parseUkDateTimeToISO: cards holds the input, out the result
Parse_Apply ==
    /\ variant = "parse" /\ pc = "start"
    /\ out' = <<parseUkDateTimeToISO(cards[1])>>
    /\ pc' = "done"
    /\ UNCHANGED <<variant, todo, cards, idx, file, navs, probe, running, stage, pages>>

-----------------------------------------------------------------------------
(* Variant "loadmore": the first script of part_003 (lines 1-146), which reveals *)
(* the listing by clicking "Load more" until the button is gone.  The loop has   *)
(* no counter of its own; pages counts its clicks modulo ClickWrap, so that a    *)
(* click is a step that changes the state                                        *)

ClickWrap == 4

\* main: launch, page.goto(START_URL), acceptCookies, networkidle
Lm_Goto ==
    /\ variant = "loadmore" /\ pc = "start"
    /\ \E throws \in BOOLEAN : pc' = IF throws THEN "failed" ELSE "more"
    /\ UNCHANGED <<variant, todo, cards, idx, out, file, navs, probe, running, stage, pages>>

\* clickLoadMore: one pass of `for (;;)`.  With the button there: click (a throw
\* is swallowed), wait, again.  Without it: break, and the rest of main runs:
\* the cards are read, keyed by title|start, sorted and written
Lm_Click ==
    /\ variant = "loadmore" /\ pc = "more"
    /\ \E more \in BOOLEAN, throws \in BOOLEAN,
          rows \in UNION {[1..n -> ListRows] : n \in 0..MaxCards} :
         /\ (more \/ throws) => rows = <<>>
         /\ more => ~throws
         /\ IF more
            THEN /\ pages' = (pages + 1) % ClickWrap
                 /\ UNCHANGED <<pc, out, file>>
            ELSE LET evs == [k \in 1..Len(rows) |->
                               [title |-> rows[k].title,
                                start |-> normalizeStart(rows[k].dateText),
                                status |-> clean(rows[k].status),
                                override_pct |-> statusToPct0(clean(rows[k].status))]]
                     results == sortByStart(uniqBy(evs,
                                   [k \in 1..Len(evs) |-> <<evs[k].title, evs[k].start>>]))
                 IN  /\ pc' = IF throws THEN "failed" ELSE "done"
                     /\ out' = IF throws THEN out ELSE results
                     /\ file' = IF throws THEN file ELSE writeFile(results)
                     /\ UNCHANGED pages
    /\ UNCHANGED <<variant, todo, cards, idx, navs, probe, running, stage>>

NextLoadMore == Lm_Goto \/ Lm_Click

-----------------------------------------------------------------------------
(* computeTicketsolvePct of the second script of part_004 (lines 647-694),       *)
(* applied to one seats page.  A payload is the sequence of the seats it lists,  *)
(* TRUE for a seat it reports available                                          *)

\* What the seats page does: the goto throws; the payloads seen after load; per
\* zone, the payloads that arrive once it is selected and the seats the DOM shows
Tap4Envs ==
    {e \in [gotoThrows : BOOLEAN,
            early : {<<>>, <<<<TRUE, FALSE, FALSE>>>>, <<<<FALSE>>, <<FALSE>>>>},
            zones : UNION {[1..n -> [net : {<<>>, <<<<TRUE, TRUE>>>>},
                                     dom : {<<>>, <<TRUE, FALSE>>}]] : n \in 0..2}] :
        (e.gotoThrows \/ e.early # <<>>) => e.zones = <<>>}

\* summariseSeatPayload on each payload and tap.read(): the merged totals
tapRead(payloads) ==
    LET flat[n \in Nat] == IF n = 0 THEN <<>> ELSE flat[n - 1] \o payloads[n]
        seats == flat[Len(payloads)]
    IN  [cap |-> Len(seats), avail |-> countTrue(seats)]

\* async function computeTicketsolvePct(page, url) of part_004's second script
computeTicketsolvePct4(env) ==
    LET zones == IF env.zones = <<>> THEN <<[net |-> <<>>, dom |-> <<>>]>> ELSE env.zones
        seen[k \in Nat] == IF k = 0 THEN env.early ELSE seen[k - 1] \o zones[k].net
        \* the totals after zone k, and whether the loop has broken
        tot[k \in Nat] ==
            IF k = 0 THEN [cap |-> 0, avail |-> 0, broke |-> FALSE]
            ELSE IF tot[k - 1].broke THEN tot[k - 1]
            ELSE IF tapRead(seen[k]).cap > 0
                 THEN [cap |-> tapRead(seen[k]).cap, avail |-> tapRead(seen[k]).avail,
                       broke |-> TRUE]
            ELSE [cap |-> tot[k - 1].cap + Len(zones[k].dom),
                  avail |-> tot[k - 1].avail + countTrue(zones[k].dom), broke |-> FALSE]
        net   == tapRead(env.early)
        total == IF net.cap > 0 THEN net ELSE tot[Len(zones)]
    IN  IF env.gotoThrows \/ total.cap = 0 THEN NoRes
        ELSE [capacity |-> total.cap, remaining |-> total.avail,
              sold |-> total.cap - total.avail,
              pct |-> clamp(jsRoundPct(total.cap - total.avail, total.cap), 0, 100)]

\* one call of computeTicketsolvePct on a seats page
Tap4_Apply ==
    /\ variant = "tap4" /\ pc = "start"
    /\ \E env \in Tap4Envs :
         probe' = [at |-> 1, status |-> <<>>, tried |-> TRUE,
                   measured |-> computeTicketsolvePct4(env)]
    /\ pc' = "done"
    /\ UNCHANGED <<variant, todo, cards, idx, out, file, navs, running, stage, pages>>

-----------------------------------------------------------------------------
(* findCapRemaining (part_004, lines 62-98) and pickCapRem (scrape-dmh.js,      *)
(* lines 550-581), one pass of the while loop per step.  A JSON tree is a heap: *)
(* cards[n] is node n, an object or an array whose props are its keys with      *)
(* their values in Object.keys order; a value is a number, a string, null or a  *)
(* reference to a node.  stage is the stack (todo / q), running the set seen,   *)
(* out the candidates (findCapRemaining) or best (pickCapRem), probe what the   *)
(* call returned, navs the argument                                             *)

\* /(^|_)(capacity|totalcapacity|max|quota|seats(total)?)(_|$)/
CapWords ==
    {<<"c","a","p","a","c","i","t","y">>,
     <<"t","o","t","a","l","c","a","p","a","c","i","t","y">>,
     <<"m","a","x">>,
     <<"q","u","o","t","a">>,
     <<"s","e","a","t","s">>,
     <<"s","e","a","t","s","t","o","t","a","l">>}
\* /(^|_)(remaining|available|left|free|seatsavailable|ticketsremaining)(_|$)/
RemWords ==
    {<<"r","e","m","a","i","n","i","n","g">>,
     <<"a","v","a","i","l","a","b","l","e">>,
     <<"l","e","f","t">>,
     <<"f","r","e","e">>,
     <<"s","e","a","t","s","a","v","a","i","l","a","b","l","e">>,
     <<"t","i","c","k","e","t","s","r","e","m","a","i","n","i","n","g">>}

\* const keyHits = (k, re) => re.test(String(k).toLowerCase()): one of the words
\* stands in the key between the start or "_" and "_" or the end
keyHits(k, words) ==
    \E t \in {toLowerCase(k)} : \E w \in words : \E i \in 0..(Len(t) - Len(w)) :
        /\ SubSeq(t, i + 1, i + Len(w)) = w
        /\ (i = 0 \/ t[i] = "_")
        /\ (i + Len(w) = Len(t) \/ t[i + Len(w) + 1] = "_")

\* Number(v): a number is itself, null is 0, a string of digits its value (the
\* empty string 0), any other string and any object NaN
Number(v) ==
    IF v.t = "num" THEN [finite |-> TRUE, n |-> v.n]
    ELSE IF v.t = "null" THEN [finite |-> TRUE, n |-> 0]
    ELSE IF v.t = "str" /\ \A k \in 1..Len(v.s) : isDigit(v.s[k])
         THEN [finite |-> TRUE, n |-> numberOf(v.s)]
    ELSE [finite |-> FALSE, n |-> 0]

\* the key sets an object of the tree can carry
NodeProps ==
    {<<[key |-> <<"n","a","m","e">>, val |-> [t |-> "str", s |-> <<"S","t","a","l","l","s">>]]>>,
     <<[key |-> <<"c","a","p","a","c","i","t","y">>, val |-> [t |-> "num", n |-> 40]],
      [key |-> <<"r","e","m","a","i","n","i","n","g">>, val |-> [t |-> "num", n |-> 17]]>>,
     <<[key |-> <<"C","a","p","a","c","i","t","y">>, val |-> [t |-> "str", s |-> <<"1","0","0">>]],
      [key |-> <<"A","v","a","i","l","a","b","l","e">>, val |-> [t |-> "num", n |-> 0]]>>,
     <<[key |-> <<"m","a","x","_","p","e","r","_","o","r","d","e","r">>, val |-> [t |-> "num", n |-> 8]],
      [key |-> <<"c","a","p","a","c","i","t","y">>, val |-> [t |-> "num", n |-> 500]],
      [key |-> <<"r","e","m","a","i","n","i","n","g">>, val |-> [t |-> "num", n |-> 120]]>>,
     <<[key |-> <<"s","e","a","t","s","_","a","v","a","i","l","a","b","l","e">>, val |-> [t |-> "num", n |-> 17]]>>,
     <<[key |-> <<"c","a","p","a","c","i","t","y">>, val |-> [t |-> "num", n |-> 0]],
      [key |-> <<"r","e","m","a","i","n","i","n","g">>, val |-> [t |-> "num", n |-> 5]]>>,
     <<[key |-> <<"c","a","p","a","c","i","t","y">>, val |-> [t |-> "num", n |-> 50]],
      [key |-> <<"r","e","m","a","i","n","i","n","g">>, val |-> [t |-> "num", n |-> -1]]>>,
     <<[key |-> <<"c","a","p","a","c","i","t","y">>, val |-> [t |-> "str", s |-> <<"n","/","a">>]],
      [key |-> <<"l","e","f","t">>, val |-> [t |-> "num", n |-> 3]]>>,
     <<[key |-> <<"c","a","p","a","c","i","t","y","L","e","f","t">>, val |-> [t |-> "num", n |-> 9]],
      [key |-> <<"r","e","m","a","i","n","i","n","g">>, val |-> [t |-> "num", n |-> 2]]>>,
     <<[key |-> <<"t","o","t","a","l","C","a","p","a","c","i","t","y">>, val |-> [t |-> "num", n |-> 100]],
      [key |-> <<"f","r","e","e">>, val |-> [t |-> "null"]]>>}

\* the trees handed to the function: a root object with a child array of two
\* objects, the first of them also a direct child of the root (shared) and,
\* when back is set, pointing back at the root (a cycle)
Heaps ==
    {<<[array |-> FALSE,
        props |-> a \o <<[key |-> <<"i","t","e","m","s">>, val |-> [t |-> "ref", n |-> 2]],
                         [key |-> <<"n","e","x","t">>, val |-> [t |-> "ref", n |-> 3]]>>],
       [array |-> TRUE,
        props |-> <<[key |-> <<"0">>, val |-> [t |-> "ref", n |-> 3]],
                    [key |-> <<"1">>, val |-> [t |-> "ref", n |-> 4]],
                    [key |-> <<"2">>, val |-> [t |-> "null"]]>>],
       [array |-> FALSE,
        props |-> b \o (IF back THEN <<[key |-> <<"p","a","r","e","n","t">>,
                                        val |-> [t |-> "ref", n |-> 1]]>>
                        ELSE <<>>)],
       [array |-> FALSE, props |-> c]>> :
         a \in NodeProps, b \in NodeProps, c \in NodeProps, back \in BOOLEAN}

\* the arguments of a call: the root of a tree, or something that is no object
CapArgs == {[t |-> "ref", n |-> 1], [t |-> "null"], [t |-> "num", n |-> 40]}

\* the body of `if (capKey && remKey) { ... }` on one node: keys.find takes the
\* first key that hits; the pair, or NoRes when the node adds no candidate
capRemOf(node) ==
    LET find(words) ==
            {k \in 1..Len(node.props) :
               /\ keyHits(node.props[k].key, words)
               /\ \A j \in 1..(k - 1) : ~keyHits(node.props[j].key, words)}
        pairs == {IF cap.finite /\ rem.finite /\ cap.n > 0 /\ rem.n >= 0
                  THEN [capacity |-> cap.n, remaining |-> rem.n]
                  ELSE NoRes :
                    cap \in {Number(node.props[k].val) : k \in find(CapWords)},
                    rem \in {Number(node.props[k].val) : k \in find(RemWords)}}
    IN  IF pairs = {} THEN NoRes ELSE CHOOSE p \in pairs : TRUE

\* `for (const k of keys) { ... }`: what one node pushes, in order; an array
\* value pushes its object items, an object value is pushed itself
RECURSIVE pushed(_, _, _)
pushed(heap, node, k) ==
    IF k > Len(node.props) THEN <<>>
    ELSE LET v == node.props[k].val IN
         (IF v.t # "ref" THEN <<>>
          ELSE IF heap[v.n].array
               THEN SelectSeq([j \in 1..Len(heap[v.n].props) |-> heap[v.n].props[j].val],
                              LAMBDA x : x.t = "ref")
          ELSE <<v>>) \o pushed(heap, node, k + 1)

\* pickCapRem were it to keep the pair it met last
keepBest_latest(best, pair) ==
    IF pair = NoRes THEN best ELSE <<pair>>

\* `if (!best || cap > best.capacity) best = { capacity: cap, remaining: rem }`
keepBest(best, pair) ==
    IF pair = NoRes THEN best
    ELSE IF best = <<>> \/ pair.capacity > best[1].capacity THEN <<pair>>
    ELSE best

\* candidates.sort((a, b) => b.capacity - a.capacity)[0]: the first pushed of
\* the candidates of the largest capacity
largestFirst(candidates) ==
    candidates[CHOOSE k \in 1..Len(candidates) :
                 /\ \A j \in 1..Len(candidates) : candidates[j].capacity <= candidates[k].capacity
                 /\ \A j \in 1..(k - 1) : candidates[j].capacity < candidates[k].capacity]

\* `if (!obj || typeof obj !== 'object') return null;` and the three locals
Cap_Enter ==
    /\ variant \in {"findcap", "pickcap"} /\ pc = "start"
    /\ IF navs[1].t = "ref"
       THEN pc' = "loop" /\ stage' = <<navs[1]>> /\ UNCHANGED probe
       ELSE pc' = "done" /\ probe' = [returned |-> NoRes] /\ UNCHANGED stage
    /\ UNCHANGED <<variant, todo, cards, idx, out, file, navs, running, pages>>

\* one pass of `while (todo.length)`: pop, skip a node already seen, else mark
\* it, add its candidate and push its children
Cap_Visit ==
    /\ variant \in {"findcap", "pickcap"} /\ pc = "loop" /\ stage # <<>>
    /\ \E n \in {stage[Len(stage)].n} :
       \E rest \in {SubSeq(stage, 1, Len(stage) - 1)} :
         IF n \in running
         THEN stage' = rest /\ UNCHANGED <<running, out>>
         ELSE \E pair \in {capRemOf(cards[n])} :
                /\ running' = running \cup {n}
                /\ out' = IF variant = "pickcap" THEN keepBest(out, pair)
                          ELSE IF pair = NoRes THEN out ELSE Append(out, pair)
                /\ \E node \in {cards[n]} : stage' = rest \o pushed(cards, node, 1)
    /\ UNCHANGED <<variant, pc, todo, cards, idx, file, navs, probe, pages>>

\* the loop is left: `return best`, or the largest of the sorted candidates
Cap_Return ==
    /\ variant \in {"findcap", "pickcap"} /\ pc = "loop" /\ stage = <<>>
    /\ probe' = [returned |-> IF out = <<>> THEN NoRes
                              ELSE IF variant = "pickcap" THEN out[1]
                              ELSE largestFirst(out)]
    /\ pc' = "done"
    /\ UNCHANGED <<variant, todo, cards, idx, out, file, navs, running, stage, pages>>

NextCap == Cap_Enter \/ Cap_Visit \/ Cap_Return

-----------------------------------------------------------------------------
(* statusToPct of part_004 (lines 27-34), part_005 (lines 24-31) and            *)
(* scrape-dmh.js (lines 533-540), applied to one argument: cards holds the      *)
(* argument, out the result                                                     *)

\* the arguments of a call: a text put together from two pieces, joined or a
\* space apart, or no argument at all (the parameter then takes its default '')
StatusArgs ==
    LET words ==
            {<<"S","O","L","D">>,
             <<"S","o","l","d">>,
             <<"S">>,
             <<"O","L","D">>,
             <<"L","i","m","i","t","e","d">>,
             <<"L","I","M","I","T","E","D">>,
             <<"l","a","s","t">>,
             <<"F","e","w">>,
             <<"L","O","W">>,
             <<"s","l","o","w">>,
             <<"B","o","o","k">>,
             <<"B","O","O","K">>,
             <<"b","o","o">>,
             <<"n","o","w">>,
             <<"o","u","t">>,
             <<"M","o","r","e"," ","i","n","f","o">>,
             <<>>}
    IN  {[given |-> TRUE, text |-> a \o sep \o b] :
            a \in words, b \in words, sep \in {<<>>, <<" ">>}}
          \cup {[given |-> FALSE, text |-> <<>>]}

\* one call statusToPct(s), or statusToPct() with the default (s = '')
Status_Apply ==
    /\ variant = "status" /\ pc = "start"
    /\ out' = <<statusToPct(IF cards[1].given THEN cards[1].text ELSE <<>>)>>
    /\ pc' = "done"
    /\ UNCHANGED <<variant, todo, cards, idx, file, navs, probe, running, stage, pages>>

-----------------------------------------------------------------------------
(* dedupe of part_003 (lines 214-225) and part_002 (lines 46-57), and the same  *)
(* filter in run of scrape-dmh.js (lines 244-251), applied to one array: cards  *)
(* holds the events, out the result.  Texts are character sequences here, so    *)
(* that the key is the text the template literal builds; a start is null or a   *)
(* text                                                                         *)

\* most events in the array handed to dedupe
MaxEvents == 3

\* the arrays of at most MaxEvents of the events main hands on after its filter
\* and map: a title (the second one ends like a key does), a start that is null
\* or the ISO text of an instant, and a percentage
DedupeArgs ==
    LET titles ==
            {<<"A">>,
             <<"A","_","_","2","0","2","5","-","1","0","-","0","3","T","1","9",":","3","0",":","0","0",".","0","0","0","Z">>}
        starts ==
            {[null |-> TRUE, text |-> <<>>],
             [null |-> FALSE, text |-> <<"2","0","2","5","-","1","0","-","0","3","T","1","9",":","3","0",":","0","0",".","0","0","0","Z">>],
             [null |-> FALSE, text |-> <<"2","0","2","5","-","1","0","-","0","4","T","1","9",":","3","0",":","0","0",".","0","0","0","Z">>]}
        events == [title : titles, start : starts, override_pct : {48, 100}]
    IN  UNION {[1..n -> events] : n \in 0..MaxEvents}

\* the key were it the title alone
dedupeKey_titleOnly(e) == e.title

\* `${e.title}__${e.start || ''}`
dedupeKey(e) ==
    e.title \o <<"_","_">> \o (IF e.start.null THEN <<>> ELSE e.start.text)

\* function dedupe(events) { ... } with its Set of keys
dedupeByKey(events) ==
    uniqByFrom(events, [k \in 1..Len(events) |-> dedupeKey(events[k])], 1, {})

\* one call dedupe(events)
Dedupe_Apply ==
    /\ variant = "dedupe" /\ pc = "start"
    /\ out' = dedupeByKey(cards)
    /\ pc' = "done"
    /\ UNCHANGED <<variant, todo, cards, idx, file, navs, probe, running, stage, pages>>

-----------------------------------------------------------------------------
(* Specifications *)

InitOf(V) ==
    /\ variant \in V
    /\ pc = "start"
    /\ todo = 0
    /\ cards = <<>>
    /\ idx = 0
    /\ out = <<>>
    /\ file \in (IF variant = "listing000" THEN {NoFile, OldFile} ELSE {NoFile})
    /\ navs = <<>>
    /\ probe = NoRes
    /\ running = {}
    /\ stage = <<>>
    /\ pages = 0

Init == InitOf({"main", "run", "pool", "main002", "run001", "main005", "listing000", "scrape", "watchdog", "loadmore", "tap4"})

Next == NextMain \/ NextRun \/ NextPool \/ NextMain2 \/ NextRun1 \/ NextMain5 \/ NextList0 \/ NextScrape
        \/ NextWatchdog \/ Parse_Apply \/ NextLoadMore \/ Tap4_Apply \/ NextCap
        \/ Status_Apply \/ Dedupe_Apply

Spec == Init /\ [][Next]_vars

SpecMain == InitOf({"main"}) /\ [][NextMain]_vars
SpecRun  == InitOf({"run"}) /\ [][NextRun]_vars
SpecPool == InitOf({"pool"}) /\ [][NextPool]_vars
SpecRun1 == InitOf({"run001"}) /\ [][NextRun1]_vars
SpecMain5 == InitOf({"main005"}) /\ [][NextMain5]_vars
SpecList0 == InitOf({"listing000"}) /\ [][NextList0]_vars
SpecScrape == InitOf({"scrape"}) /\ [][NextScrape]_vars
SpecWatchdog == InitOf({"watchdog"}) /\ [][NextWatchdog]_vars
\* parseUkDateTimeToISO on each of its inputs
InitParse ==
    /\ variant = "parse" /\ pc = "start" /\ cards \in {<<m>> : m \in UkInputs}
    /\ todo = 0 /\ idx = 0 /\ out = <<>> /\ file = NoFile /\ navs = <<>>
    /\ probe = NoRes /\ running = {} /\ stage = <<>> /\ pages = 0
SpecParse == InitParse /\ [][Parse_Apply]_vars
\* findCapRemaining and pickCapRem on each tree; every pass of the loop is
\* synchronous code that runs on
InitCap ==
    /\ variant \in {"findcap", "pickcap"} /\ pc = "start" /\ cards \in Heaps
    /\ navs \in {<<a>> : a \in CapArgs}
    /\ todo = 0 /\ idx = 0 /\ out = <<>> /\ file = NoFile
    /\ probe = NoRes /\ running = {} /\ stage = <<>> /\ pages = 0
SpecCapFair == InitCap /\ [][NextCap]_vars /\ WF_vars(NextCap)
\* statusToPct on each of its arguments
InitStatus ==
    /\ variant = "status" /\ pc = "start" /\ cards \in {<<a>> : a \in StatusArgs}
    /\ todo = 0 /\ idx = 0 /\ out = <<>> /\ file = NoFile /\ navs = <<>>
    /\ probe = NoRes /\ running = {} /\ stage = <<>> /\ pages = 0
SpecStatus == InitStatus /\ [][Status_Apply]_vars
\* dedupe on each array of events
InitDedupe ==
    /\ variant = "dedupe" /\ pc = "start" /\ cards \in DedupeArgs
    /\ todo = 0 /\ idx = 0 /\ out = <<>> /\ file = NoFile /\ navs = <<>>
    /\ probe = NoRes /\ running = {} /\ stage = <<>> /\ pages = 0
SpecDedupe == InitDedupe /\ [][Dedupe_Apply]_vars
\* the scripts whose Ticketsolve probe returns { capacity, remaining, sold, pct }
SpecProbes ==
    InitOf({"scrape", "main", "pool", "tap4"})
      /\ [][NextScrape \/ NextMain \/ NextPool \/ Tap4_Apply]_vars
\* every pass of clickLoadMore awaits calls that settle or time out
SpecLoadMoreFair ==
    InitOf({"loadmore"}) /\ [][NextLoadMore]_vars /\ WF_vars(NextLoadMore)
\* the variants whose lookups probe Ticketsolve before reading the card's status
SpecSources ==
    InitOf({"main", "pool", "main002"}) /\ [][NextMain \/ NextPool \/ NextMain2]_vars
\* the variants that fall back to the status table when a measurement fails
SpecFallback ==
    InitOf({"run", "pool", "main005"}) /\ [][NextRun \/ NextPool \/ NextMain5]_vars
SpecMain2 == InitOf({"main002"}) /\ [][NextMain2]_vars
\* every step of main002 awaits something that settles or times out
SpecMain2Fair == SpecMain2 /\ WF_vars(NextMain2)

-----------------------------------------------------------------------------
(* Properties *)

\* the run has ended: the file was written, or an error left the entry point
Terminated == pc \in {"done", "failed"}

\* C2: the written array holds no two events with the same title and the same
\* start (a null start equal to a null start)
C2_NoTwoEventsShareTitleAndStart ==
    \A i, j \in 1..Len(file.events) :
        i # j => ~(/\ file.events[i].title = file.events[j].title
                   /\ file.events[i].start = file.events[j].start)

\* C4: no two in-flight lookups of the pooled variant drive the same pooled page
C4_OneLookupPerPooledPage ==
    variant = "pool" =>
        \A a, b \in running :
            (a # b /\ usesPage(a) /\ usesPage(b)) => a % TS_CONCURRENCY # b % TS_CONCURRENCY

\* C5: a run that ended after a failed extraction step has still written its file
C5_EndedRunHasWrittenFile == Terminated => file.written

\* how many times the last event's lookups navigated to u
navCount(u) == Cardinality({k \in 1..Len(navs) : navs[k] = u})

C9_AtMostLimitInFlight ==
    variant = "pool" => Cardinality(running) <= TS_CONCURRENCY

C9_Witness ==
    /\ variant = "pool" /\ Cardinality(running) = TS_CONCURRENCY
    /\ idx < Len(cards)

\* the most recent event was built from a card whose status text is empty or
\* names no known status, and no Ticketsolve measurement succeeded for it
UnknownStatusUnmeasured ==
    /\ variant \in {"run", "main002"} /\ idx > 0 /\ probe.measured = NoRes
    /\ IF variant = "main002" THEN probe.status = <<>>
       ELSE LET t == toLowerCase(probe.status) IN
            ~(\/ includes(t, Kw.sold) \/ includes(t, Kw.limited) \/ includes(t, Kw.last)
              \/ includes(t, Kw.low) \/ includes(t, Kw.booknow))

\* C7: an event with an unrecognised or empty card status and no successful
\* Ticketsolve measurement gets override_pct = 30
C7_UnknownStatusGets30 ==
    UnknownStatusUnmeasured => out[Len(out)].override_pct = 30

\* C10: paginate runs its click-and-wait body at most MAX_PAGES times, leaves the
\* loop in the first pass that found nothing to click, and is eventually left
C10_PaginateBoundedAndLeft ==
    /\ [](variant = "main002" => pages <= MAX_PAGES)
    /\ [][(pc = "paginate" /\ pc' = "paginate") => pages' = pages + 1]_vars
    /\ (pc = "paginate") ~> (pc # "paginate")

C10_Witness == variant = "main002" /\ pc = "paginate" /\ pages = MAX_PAGES

\* C1: every event of the written array has a numeric override_pct within 0..100
C1_EveryEventHasOverridePct ==
    \A k \in 1..Len(file.events) :
        /\ "override_pct" \in DOMAIN file.events[k]
        /\ file.events[k].override_pct \in 0..100

\* an event has been built, and probe describes how
Resolved == probe # NoRes

\* the event that probe describes
lastEvent == out[probe.at]

\* C3 (as stated): the card text comes first: once the card's text is recognised
\* as SOLD OUT, no later source changes the percentage it gives
C3_SoldOutCardTextIsFinal ==
    (Resolved /\ includes(toLowerCase(probe.status), Kw.sold)) =>
        lastEvent.override_pct = 100

\* C3: main() of scrape-dmh.js and the pooled main() take the percentage from the
\* network JSON when it carries a pair, else from the DOM (or bootstrapped) pair,
\* and from the card's status text only when neither gave numbers; part_002 lets
\* a SOLD OUT or CANCELLED card text win, then the Ticketsolve page, then 48
C3_SourcePrecedence ==
    Resolved =>
        CASE variant \in {"main", "pool"} ->
               lastEvent.override_pct =
                   IF probe.net # NoRes THEN finalise(probe.net).pct
                   ELSE IF probe.dom # NoRes THEN finalise(probe.dom).pct
                   ELSE statusToPct(probe.status)
          [] variant = "main002" ->
               lastEvent.override_pct =
                   IF probe.status = Txt.SOLD_OUT THEN 100
                   ELSE IF probe.status = Txt.CANCELLED THEN 0
                   ELSE IF probe.measured # NoRes THEN probe.measured.pct
                   ELSE 48
          [] OTHER -> TRUE

C3_Witness ==
    /\ Resolved /\ variant = "main"
    /\ includes(toLowerCase(probe.status), Kw.sold)
    /\ probe.net = NoRes /\ probe.dom # NoRes
    /\ lastEvent.override_pct = 50

\* C6: when the Ticketsolve lookup of an event throws, times out or finds no
\* numbers, the event is still emitted with the status table's value for its card
\* status, and the run goes on
C6_FailedMeasureFallsBack ==
    (Resolved /\ variant \in {"run", "pool", "main005"} /\ probe.tried
        /\ probe.measured = NoRes) =>
        /\ lastEvent.title = cards[probe.at].title
        /\ lastEvent.override_pct = IF variant = "run" THEN fallbackPct(probe.status)
                                    ELSE statusToPct(probe.status)
        /\ pc \in {"enrich", "map", "done"}
        /\ variant # "pool" => idx >= probe.at

C6_Witness ==
    /\ Resolved /\ variant = "main005" /\ probe.tried /\ probe.measured = NoRes
    /\ includes(toLowerCase(probe.status), Kw.sold)
    /\ pc = "enrich" /\ idx = probe.at /\ idx < Len(cards)

\* C11: every emitted event's start is null or a valid ISO-8601 timestamp; a date
\* text that only begins with YYYY-MM-DD, or names no calendar day, gives null
C11_EveryStartIsNullOrISO ==
    variant = "listing000" =>
        \A k \in 1..Len(out) : out[k].start = NoRes \/ isISO8601(out[k].start.text)

\* C12: the listing crawl keeps the former output file exactly when the run
\* extracted no event and the file existed; otherwise its last step writes the
\* run's complete sorted array, and no other step touches the file
C12_KeepsFormerFileOrWritesOnce ==
    [][ variant = "listing000" =>
          /\ (pc = "list" /\ pc' = "done") =>
                IF Len(out) = 0 /\ existsSync(file)
                THEN file' = file
                ELSE file' = [written |-> TRUE, events |-> out'] /\ Len(out') = Len(out)
          /\ file' # file => (pc = "list" /\ pc' = "done") ]_vars

\* a run that extracted nothing has ended and the former file is still there
C12_Witness ==
    variant = "listing000" /\ pc = "done" /\ out = <<>> /\ file = OldFile

\* C13: computePctSoldFromTicketsolve counts a seat whose data-seat-status says
\* "unavailable" as unavailable and never as available, and returns
\* round(100 * unavailable / (available + unavailable)): on a seat map whose
\* statuses are the words "available" and "unavailable" the percentage is the
\* rounded share of the "unavailable" ones
C13_UnavailableSeatIsCountedUnavailable ==
    (variant = "run" /\ probe # NoRes /\ probe.seats # NoRes) =>
        LET attr == probe.seats.attr
            unavailable == Cardinality({k \in 1..Len(attr) : attr[k] = Kw.unavailable})
        IN  (attr # <<>> /\ \A k \in 1..Len(attr) : attr[k] \in {Kw.available, Kw.unavailable})
               => probe.measured = [pct |-> roundPct(unavailable, Len(attr))]

\* C14: in scrape(), probing a card's Ticketsolve link does not disturb the cards
\* after it: every card with a title that the loop has passed has given exactly
\* one event of the list before dedup
C14_EveryTitledCardYieldsOneEvent ==
    (variant = "scrape" /\ pc \in {"cards", "done"}) =>
        Len(out) = Cardinality({k \in 1..idx : cards[k].title # ""})

\* C15: a pair a response handler recorded in `best` is never discarded: a probe
\* during which a handler recorded a pair returns a non-null result
C15_RecordedPairIsReturned ==
    (variant = "scrape" /\ probe # NoRes /\ probe.recorded) => probe.measured # NoRes

\* C16: when the DOM extractor or the network sniffer finds a start time on the
\* seats page, discoverStartISO returns a time found on the seats page,
\* whichever of the two finishes first
C16_SeatsPageTimeWins ==
    (variant = "watchdog" /\ probe # NoRes) =>
        LET e == probe.env
            raced == /\ probe.start = IsoMidnight /\ probe.tickets # NoUrl
                     /\ ~e.gotoThrows /\ e.row = null
        IN  (raced /\ (e.dom # null \/ e.sniff # null))
               => (probe.refined \in ({e.dom, e.sniff} \ {null}))

\* C17: at most one operation drives a pooled page at any time: the step main
\* awaits and the steps whose deadline fired never share a page
C17_OneOperationPerPooledPage ==
    variant = "watchdog" =>
        \A p \in 0..(CONCURRENCY - 1) :
            Cardinality({r \in running : r.page = p})
              + (IF pc = "await" /\ idx % CONCURRENCY = p THEN 1 ELSE 0) <= 1

\* C19: parseUkDateTimeToISO reads the wall-clock time as Europe/London time and
\* returns the instant in UTC: one hour earlier during British Summer Time (of
\* the model's dates, those of July and 3 October), the same hour otherwise;
\* 12 AM is hour 0 and h PM is h + 12 for h < 12
C19_LondonWallClockToUTC ==
    (variant = "parse" /\ pc = "done" /\ out[1] # NoRes) =>
        LET m    == cards[1]
            pm   == toUpperCase(m.ampm) = <<"P","M">>
            am   == toUpperCase(m.ampm) = <<"A","M">>
            h24  == IF pm /\ m.hour < 12 THEN m.hour + 12
                    ELSE IF am /\ m.hour = 12 THEN 0 ELSE m.hour
            bst  == out[1].month = 6 \/ (out[1].month = 9 /\ m.day = 3)
            utc  == IF ~bst THEN [day |-> m.day, hour |-> h24]
                    ELSE IF h24 = 0 THEN [day |-> m.day - 1, hour |-> 23]
                    ELSE [day |-> m.day, hour |-> h24 - 1]
        IN  (bst \/ out[1].month = 0) =>
               (out[1].day = utc.day /\ out[1].hour = utc.hour /\ out[1].minute = m.minute)

\* C18: every listing-discovery loop terminates for every behaviour of the site:
\* clickLoadMore clicks only a bounded number of times even when the "Load more"
\* button never disappears, so the loop is left in the end
C18_LoadMoreLoopIsLeft ==
    <>(variant = "loadmore" /\ pc # "start" /\ pc # "more")

\* C20 as stated: every non-null result of a Ticketsolve probe has capacity > 0,
\* 0 <= remaining <= capacity, sold = capacity - remaining and
\* pct = round(100 * sold / capacity) with 0 <= pct <= 100
C20_PctIsExactRounding ==
    (probe # NoRes /\ probe.measured # NoRes) =>
        LET r == probe.measured IN
        /\ r.capacity > 0 /\ 0 <= r.remaining /\ r.remaining <= r.capacity
        /\ r.sold = r.capacity - r.remaining
        /\ r.pct = (200 * r.sold + r.capacity) \div (2 * r.capacity)
        /\ 0 <= r.pct /\ r.pct <= 100

\* C20 (amended): every non-null result of a Ticketsolve probe has capacity > 0,
\* 0 <= remaining <= capacity, sold = capacity - remaining and 0 <= pct <= 100;
\* pct is round(100 * sold / capacity) or one less, 0 when remaining is the
\* capacity and 100 when remaining is 0
C20_ResultIsConsistent ==
    (probe # NoRes /\ probe.measured # NoRes) =>
        LET r     == probe.measured
            exact == (200 * r.sold + r.capacity) \div (2 * r.capacity)
        IN  /\ r.capacity > 0 /\ 0 <= r.remaining /\ r.remaining <= r.capacity
            /\ r.sold = r.capacity - r.remaining
            /\ 0 <= r.pct /\ r.pct <= 100
            /\ r.pct \in {exact - 1, exact}
            /\ r.remaining = r.capacity => r.pct = 0
            /\ r.remaining = 0 => r.pct = 100

\* the single-page script has returned a result whose reported remaining was
\* above the capacity and has been clamped
C20_Witness ==
    /\ variant = "scrape" /\ probe # NoRes /\ probe.measured # NoRes
    /\ probe.measured.remaining = probe.measured.capacity /\ probe.measured.pct = 0

\* the nodes of the tree in cards that can be reached from its root
CapReachable ==
    LET grow[i \in 0..Len(cards)] ==
            IF i = 0 THEN {1}
            ELSE grow[i - 1] \cup
                 {cards[n].props[k].val.n :
                    <<n, k>> \in {<<n, k>> \in grow[i - 1] \X (1..5) :
                                    /\ k <= Len(cards[n].props)
                                    /\ cards[n].props[k].val.t = "ref"}}
    IN  grow[Len(cards)]

\* the pairs of the reachable objects that have a capacity-like and a
\* remaining-like key with finite capacity > 0 and remaining >= 0
CapPairs == {capRemOf(cards[n]) : n \in CapReachable} \ {NoRes}

C22_FirstMatchingRuleDecides ==
    (variant = "status" /\ pc = "done") =>
        LET t == toLowerCase(cards[1].text)
            sold == includes(t, Kw.sold)
            limited == includes(t, Kw.limited)
            scarce == includes(t, Kw.last) \/ includes(t, Kw.few) \/ includes(t, Kw.low)
            book == includes(t, Kw.book)
            r == out[1]
        IN  /\ Len(out) = 1 /\ r \in {100, 85, 75, 48, 30}
            /\ r = 100 <=> sold
            /\ r = 85 <=> (~sold /\ limited)
            /\ r = 75 <=> (~sold /\ ~limited /\ scarce)
            /\ r = 48 <=> (~sold /\ ~limited /\ ~scarce /\ book)
            /\ (~cards[1].given \/ cards[1].text = <<>>) => r = 30

\* an upper-case text that names both 'sold' and 'limited' has been given 100
C22_Witness ==
    /\ variant = "status" /\ pc = "done"
    /\ cards[1].text = <<"S","O","L","D"," ","L","I","M","I","T","E","D">>
    /\ out = <<100>>

\* the positions of the array in cards whose (title, start) pair no earlier
\* position has
FirstOfPair ==
    {i \in 1..Len(cards) :
       \A j \in 1..(i - 1) : <<cards[j].title, cards[j].start>> # <<cards[i].title, cards[i].start>>}

\* C23: dedupe(events) returns a subsequence of its input that keeps, for each
\* (title, start) pair, exactly the first event with that pair, in the order of
\* the input, and dedupe(dedupe(x)) = dedupe(x)
C23_KeepsFirstOfEachPairInOrder ==
    (variant = "dedupe" /\ pc = "done") =>
        /\ Len(out) = Cardinality(FirstOfPair)
        /\ \A n \in 1..Len(out) :
             out[n] = cards[CHOOSE i \in FirstOfPair :
                              Cardinality({j \in FirstOfPair : j <= i}) = n]
        /\ dedupeByKey(out) = out

\* an array of three events whose first and last share their pair but differ,
\* with an event of another pair between them, has been cut to two events
C23_Witness ==
    /\ variant = "dedupe" /\ pc = "done" /\ Len(cards) = 3 /\ Len(out) = 2
    /\ cards[1] # cards[3]
    /\ <<cards[1].title, cards[1].start>> = <<cards[3].title, cards[3].start>>
    /\ out = <<cards[1], cards[2]>>

=============================================================================
